---- MODULE Spec2Model ----
(***************************************************************************)
(* Conversation persistence (in-memory, JSON file, CosmosDB strategies)    *)
(* and the ConversationService that drives them.                           *)
(*                                                                         *)
(* Strings that the code concatenates or pattern-matches (user ids,        *)
(* conversation ids, file names, CosmosDB item ids) are sequences of       *)
(* one-character strings, so that concatenation and prefix matching are    *)
(* computed as Python computes them.  Timestamps are integers; the ISO     *)
(* text produced by isoformat() is the record [iso |-> t].  A message's    *)
(* own created_at is not modelled.                                         *)
(***************************************************************************)
EXTENDS Integers, Sequences, FiniteSets, TLC

\* ------------------------------------------------------------------ bounds
\* Number of operations in a run; the clock advances by one per operation.
MaxClock == 3

\* ------------------------------------------------------------- input data
Backends == {"memory", "json", "cosmos"}

UserIds == {<<"a">>, <<"a", "_", "b">>}

ConvIds == {<<"c">>, <<"b", "_", "c">>}

\* The agent ids in the service registry; conversations name "ag1" or "ag2".
RegisteredAgents == {"ag1"}

None == [none |-> TRUE]

\* ----------------------------------------------------- timestamps (ISO text)
isoformat(t) == [iso |-> t]

fromisoformat(s) == s.iso

\* ------------------------------------------------------ sequence utilities
SeqMap(F(_), s) == [i \in 1..Len(s) |-> F(s[i])]

Range(s) == {s[i] : i \in 1..Len(s)}

IsPrefix(p, s) == Len(p) <= Len(s) /\ SubSeq(s, 1, Len(p)) = p

IsSuffix(p, s) == Len(p) <= Len(s) /\ SubSeq(s, Len(s) - Len(p) + 1, Len(s)) = p

\* ------------------------------------------------ Message / attachment data
\* GraphType and MediaType member names (core/common).
GraphTypeMembers == {"BAR", "PIE", "LINE", "STACKED_BAR"}

MediaTypeMembers == {"IMAGE", "AUDIO", "VIDEO", "FILE"}

\* An attachment value in one of its three runtime shapes:
\*   "object": the pydantic Graph/MediaAttachment instance;
\*   "dump":   the dict of Message.model_dump(), whose "type" is the Enum member;
\*   "json":   the deep-serialised dict, whose "type" is the Enum's attribute
\*             mapping (with "_name_").
Attachment(form, name) == [form |-> form, type |-> name]

GraphAttachment(name) == Attachment("object", name)

Citation(item_id, source) == [item_id |-> item_id, source |-> source]

Message(message_id, role, content, citations, metadata, attachments) ==
    [message_id |-> message_id, role |-> role, content |-> content,
     citations |-> citations, metadata |-> metadata, attachments |-> attachments]

M1 == Message("m1", "user", "hello", <<>>, [k |-> "v1"], <<>>)

M2 == Message("m2", "assistant", "chart", <<Citation("i1", "docs")>>, [k |-> "v2"],
              <<GraphAttachment("BAR")>>)

PoolMessages == {M1, M2}

\* Metadata json.dumps raises on: a mapping that holds itself (ValueError,
\* circular reference) and a mapping one of whose nested keys is a tuple
\* (TypeError, keys must be str, int, float, bool or None).
CyclicPayload == [k |-> "a mapping that holds itself"]

TupleKeyPayload == [k |-> "a mapping with a tuple as key"]

\* json.dumps(obj) returns.
Dumpable(obj) == obj \notin {CyclicPayload, TupleKeyPayload}

M3 == Message("m3", "user", "cyclic", <<>>, CyclicPayload, <<>>)

M4 == Message("m4", "user", "keyed", <<>>, TupleKeyPayload, <<>>)

\* _serialize_for_json / _serialize_for_cosmos: a serialisable object is
\* returned as it is; walking a mapping that holds itself ends in
\* RecursionError; a mapping keeps its keys, tuples included.
_serialize_for_json(obj) ==
    IF obj = CyclicPayload THEN [raised |-> TRUE] ELSE [raised |-> FALSE, value |-> obj]

\* {"error": f"Failed to serialize ...: {str(e)}"}
SerializeError == [error |-> "Failed to serialize"]

SerializedMetadata(metadata) ==
    IF _serialize_for_json(metadata).raised THEN SerializeError
    ELSE _serialize_for_json(metadata).value

Conversation(conversation_id, agent, title, created_at, last_updated_at, messages, metadata) ==
    [conversation_id |-> conversation_id, agent |-> agent, title |-> title,
     created_at |-> created_at, last_updated_at |-> last_updated_at,
     messages |-> messages, metadata |-> metadata]

\* The conversations callers hand to save_conversation, built at time t.
SampleConversations(cid, uid, t) ==
    { Conversation(cid, "ag1", "t1", t, t, <<>>, [user_id |-> uid]),
      Conversation(cid, "ag1", "t1", t, t, <<M1, M2>>, [user_id |-> uid]),
      Conversation(cid, "ag2", "t2", t, t, <<M1>>, [user_id |-> uid]) }

\* ------------------------------------------------------- mapping utilities
\* dict[k] = v
Put(f, k, v) == (k :> v) @@ f

\* del dict[k]
Remove(f, k) == [x \in DOMAIN f \ {k} |-> f[x]]

EmptyMap == <<>>

\* The storage of all three backends as one value.
\*   store: InMemoryPersistenceStrategy._store, user_id -> ordered dict, the
\*          ordered dict being the sequence of its values in insertion order;
\*   files: the JSON documents in base_dir, by file path;
\*   conversation_container / messages_container: the CosmosDB containers, by
\*          <<partition key, item id>>.
MakeDB(s, f, cc, mc) ==
    [store |-> s, files |-> f, conversation_container |-> cc, messages_container |-> mc]

Result(db, ret) == [db |-> db, ret |-> ret]

\* =========================================================== in-memory backend
\* One stored message of save_conversation: no "attachments" key is written.
MemSaveMessage(msg) ==
    [message_id |-> msg.message_id, role |-> msg.role, content |-> msg.content,
     citations |-> SeqMap(LAMBDA cit : Citation(cit.item_id, cit.source), msg.citations),
     metadata |-> msg.metadata]

\* Message.model_dump(): nested models become dicts, Enum members stay Enum members.
model_dump(msg) ==
    [message_id |-> msg.message_id, role |-> msg.role, content |-> msg.content,
     citations |-> SeqMap(LAMBDA cit : Citation(cit.item_id, cit.source), msg.citations),
     metadata |-> msg.metadata,
     attachments |-> SeqMap(LAMBDA att : Attachment("dump", att.type), msg.attachments)]

\* Position of conversation_id in a user's ordered dict, 0 when missing.
DictIndex(d, conversation_id) ==
    IF \E i \in 1..Len(d) : d[i].conversation_id = conversation_id
    THEN CHOOSE i \in 1..Len(d) : d[i].conversation_id = conversation_id
    ELSE 0

\* d[conversation_id] = doc: in place when the key exists, appended otherwise.
DictSet(d, conversation_id, doc) ==
    IF DictIndex(d, conversation_id) = 0 THEN Append(d, doc)
    ELSE [d EXCEPT ![DictIndex(d, conversation_id)] = doc]

DictDel(d, conversation_id) ==
    SelectSeq(d, LAMBDA x : x.conversation_id # conversation_id)

MemDoc(conversation, user_id) ==
    [conversation_id |-> conversation.conversation_id,
     user_id |-> user_id,
     agent_id |-> conversation.agent,
     title |-> conversation.title,
     created_at |-> isoformat(conversation.created_at),
     last_updated_at |-> isoformat(conversation.last_updated_at),
     messages |-> SeqMap(MemSaveMessage, conversation.messages),
     metadata |-> conversation.metadata]

MemSaveConversation(db, conversation, user_id) ==
    LET s1 == IF user_id \notin DOMAIN db.store THEN Put(db.store, user_id, <<>>) ELSE db.store
        s2 == Put(s1, user_id,
                  DictSet(s1[user_id], conversation.conversation_id, MemDoc(conversation, user_id)))
    IN  Result([db EXCEPT !.store = s2], TRUE)

MemLoadConversation(db, conversation_id, user_id) ==
    IF user_id \notin DOMAIN db.store THEN None
    ELSE LET d == db.store[user_id]
             i == DictIndex(d, conversation_id)
         IN  IF i = 0 THEN None ELSE d[i]

MemDeleteConversation(db, conversation_id, user_id) ==
    IF user_id \notin DOMAIN db.store THEN Result(db, FALSE)
    ELSE IF DictIndex(db.store[user_id], conversation_id) # 0
         THEN Result([db EXCEPT !.store[user_id] = DictDel(@, conversation_id)], TRUE)
         ELSE Result(db, FALSE)

MemResetConversation(db, conversation_id, user_id, now) ==
    IF user_id \in DOMAIN db.store /\ DictIndex(db.store[user_id], conversation_id) # 0
    THEN LET conversation == db.store[user_id][DictIndex(db.store[user_id], conversation_id)]
             fresh == [conversation_id |-> conversation.conversation_id,
                       user_id |-> user_id,
                       agent_id |-> conversation.agent_id,
                       title |-> conversation.title,
                       created_at |-> conversation.created_at,
                       last_updated_at |-> isoformat(now),
                       messages |-> <<>>,
                       metadata |-> conversation.metadata]
         IN  Result([db EXCEPT !.store[user_id] = DictSet(@, conversation_id, fresh)], TRUE)
    ELSE Result(db, FALSE)

MemAppendMessage(db, conversation_id, user_id, message, now) ==
    IF user_id \notin DOMAIN db.store THEN Result(db, FALSE)
    ELSE IF DictIndex(db.store[user_id], conversation_id) = 0 THEN Result(db, FALSE)
    ELSE LET conversation == db.store[user_id][DictIndex(db.store[user_id], conversation_id)]
             appended == [conversation EXCEPT
                             !.messages = Append(@, model_dump(message)),
                             !.last_updated_at = isoformat(now)]
         IN  Result([db EXCEPT !.store[user_id] = DictSet(@, conversation_id, appended)], TRUE)

\* =========================================================== JSON file backend
\* JsonFilePersistenceStrategy.base_dir, with the path separator.
BaseDir == <<"base_dir/">>

\* f"{user_id}_{conversation_id}.json" under base_dir.
_get_filepath(conversation_id, user_id) ==
    BaseDir \o user_id \o <<"_">> \o conversation_id \o <<".json">>

\* _serialize_for_json / _serialize_for_cosmos on an attachment: a pydantic
\* object is not JSON serialisable, so it is expanded through __dict__, and
\* its Enum "type" through the Enum's __dict__ (which holds "_name_").
SerializeAttachment(att) == Attachment("json", att.type)

\* JsonFilePersistenceStrategy._serialize_message on the dict built by
\* save_conversation / append_message.
JsonSerializeMessage(msg) ==
    [message_id |-> msg.message_id, role |-> msg.role, content |-> msg.content,
     metadata |-> SerializedMetadata(msg.metadata),
     citations |-> SeqMap(LAMBDA cit : Citation(cit.item_id, cit.source), msg.citations),
     attachments |-> SeqMap(SerializeAttachment, msg.attachments)]

JsonDoc(conversation, user_id) ==
    [conversation_id |-> conversation.conversation_id,
     user_id |-> user_id,
     agent_id |-> conversation.agent,
     title |-> conversation.title,
     created_at |-> isoformat(conversation.created_at),
     last_updated_at |-> isoformat(conversation.last_updated_at),
     messages |-> SeqMap(JsonSerializeMessage, conversation.messages),
     metadata |-> conversation.metadata]

\* A file that open(filepath, "w") truncated and json.dump did not finish:
\* json.load raises on it.
Corrupt == [corrupt |-> TRUE]

\* json.load(f) succeeds on the file at filepath.
Readable(db, filepath) == db.files[filepath] # Corrupt

\* json.dump(data, f) returns: every message of data can be dumped.
DumpableDoc(data) == \A i \in 1..Len(data.messages) : Dumpable(data.messages[i].metadata)

\* save_conversation: open(filepath, "w") truncates the file before json.dump
\* writes; when json.dump raises, the file is left unfinished and False is
\* returned.
JsonSaveConversation(db, conversation, user_id) ==
    LET filepath == _get_filepath(conversation.conversation_id, user_id)
    IN  IF DumpableDoc(JsonDoc(conversation, user_id))
        THEN Result([db EXCEPT !.files = Put(@, filepath, JsonDoc(conversation, user_id))], TRUE)
        ELSE Result([db EXCEPT !.files = Put(@, filepath, Corrupt)], FALSE)

JsonLoadConversation(db, conversation_id, user_id) ==
    LET filepath == _get_filepath(conversation_id, user_id)
    IN  IF filepath \notin DOMAIN db.files THEN None
        ELSE IF ~Readable(db, filepath) THEN None
        ELSE db.files[filepath]

JsonDeleteConversation(db, conversation_id, user_id) ==
    LET filepath == _get_filepath(conversation_id, user_id)
    IN  IF filepath \notin DOMAIN db.files THEN Result(db, FALSE)
        ELSE Result([db EXCEPT !.files = Remove(@, filepath)], TRUE)

JsonResetConversation(db, conversation_id, user_id, now) ==
    LET filepath == _get_filepath(conversation_id, user_id)
    IN  IF filepath \notin DOMAIN db.files THEN Result(db, FALSE)
        ELSE IF ~Readable(db, filepath) THEN Result(db, FALSE)
        ELSE Result([db EXCEPT !.files[filepath] =
                        [@ EXCEPT !.messages = <<>>, !.last_updated_at = isoformat(now)]], TRUE)

JsonAppendMessage(db, conversation_id, user_id, message, now) ==
    LET filepath == _get_filepath(conversation_id, user_id)
    IN  IF filepath \notin DOMAIN db.files THEN Result(db, FALSE)
        ELSE IF ~Readable(db, filepath) THEN Result(db, FALSE)
        ELSE IF ~Dumpable(JsonSerializeMessage(message).metadata)
             THEN Result([db EXCEPT !.files[filepath] = Corrupt], FALSE)
        ELSE Result([db EXCEPT !.files[filepath] =
                        [@ EXCEPT !.messages = Append(@, JsonSerializeMessage(message)),
                                  !.last_updated_at = isoformat(now)]], TRUE)

\* ============================================================ CosmosDB backend
\* f"{conversation_id}:{message_id}"
MessageItemId(conversation_id, message_id) == conversation_id \o <<":", message_id>>

\* CosmosDBPersistenceStrategy._serialize_message
\* with its final json.dumps check: what still cannot be dumped is replaced
\* by a simplified record, which has no "metadata" key.
CosmosSerializeMessage(msg) ==
    IF Dumpable(SerializedMetadata(msg.metadata))
    THEN [message_id |-> msg.message_id, role |-> msg.role, content |-> msg.content,
          citations |-> SeqMap(LAMBDA cit : Citation(cit.item_id, cit.source), msg.citations),
          attachments |-> SeqMap(SerializeAttachment, msg.attachments),
          metadata |-> SerializedMetadata(msg.metadata)]
    ELSE [message_id |-> msg.message_id, role |-> msg.role,
          content |-> "Error: Message content could not be serialized for storage",
          error |-> "Serialization failure",
          citations |-> <<>>, attachments |-> <<>>]

\* The message record written to the messages container.
MessageItem(conversation_id, user_id, msg, sequence) ==
    LET d == CosmosSerializeMessage(msg)
    IN  IF "error" \in DOMAIN d
        THEN [message_id |-> d.message_id, role |-> d.role, content |-> d.content,
              citations |-> d.citations, attachments |-> d.attachments, error |-> d.error,
              id |-> MessageItemId(conversation_id, msg.message_id),
              conversation_id |-> conversation_id,
              user_id |-> user_id,
              sequence |-> sequence]
        ELSE [message_id |-> d.message_id, role |-> d.role, content |-> d.content,
              citations |-> d.citations, attachments |-> d.attachments,
              metadata |-> d.metadata,
              id |-> MessageItemId(conversation_id, msg.message_id),
              conversation_id |-> conversation_id,
              user_id |-> user_id,
              sequence |-> sequence]

\* messages_container.upsert_item(body): keyed by the partition key
\* (/conversation_id) and the item id.
UpsertMessage(mc, item) == Put(mc, <<item.conversation_id, item.id>>, item)

\* _delete_messages: every item of the partition conversation_id is deleted,
\* whoever its user_id is.
_delete_messages(db, conversation_id) ==
    [db EXCEPT !.messages_container =
        [k \in {x \in DOMAIN @ : x[1] # conversation_id} |-> @[k]]]

RECURSIVE UpsertMessages(_, _, _, _, _)
UpsertMessages(mc, conversation_id, user_id, messages, idx) ==
    IF idx > Len(messages) THEN mc
    ELSE UpsertMessages(
             UpsertMessage(mc, MessageItem(conversation_id, user_id, messages[idx], idx - 1)),
             conversation_id, user_id, messages, idx + 1)

\* _save_messages: an empty list returns early, before anything is deleted.
_save_messages(db, conversation_id, user_id, messages) ==
    IF messages = <<>> THEN Result(db, TRUE)
    ELSE LET d1 == _delete_messages(db, conversation_id)
         IN  Result([d1 EXCEPT !.messages_container =
                        UpsertMessages(@, conversation_id, user_id, messages, 1)], TRUE)

\* The orders "ORDER BY c.sequence" may return the items in: items with equal
\* sequence come in either order.
RECURSIVE OrderedBySequence(_)
OrderedBySequence(items) ==
    IF items = {} THEN {<<>>}
    ELSE LET firsts == {d \in items : \A e \in items : d.sequence <= e.sequence}
         IN  UNION {{<<d>> \o rest : rest \in OrderedBySequence(items \ {d})} : d \in firsts}

\* A loaded message record: "id" and "sequence" are removed.
LoadedMessage(item) ==
    IF "error" \in DOMAIN item
    THEN [message_id |-> item.message_id, role |-> item.role, content |-> item.content,
          citations |-> item.citations, attachments |-> item.attachments,
          error |-> item.error,
          conversation_id |-> item.conversation_id, user_id |-> item.user_id]
    ELSE [message_id |-> item.message_id, role |-> item.role, content |-> item.content,
          citations |-> item.citations, attachments |-> item.attachments,
          metadata |-> item.metadata,
          conversation_id |-> item.conversation_id, user_id |-> item.user_id]

\* _load_messages: the possible results.
_load_messages(db, conversation_id) ==
    LET mc == db.messages_container
        items == {mc[k] : k \in {x \in DOMAIN mc : x[1] = conversation_id}}
    IN  {SeqMap(LoadedMessage, s) : s \in OrderedBySequence(items)}

CosmosSaveConversation(db, conversation, user_id) ==
    LET saved == _save_messages(db, conversation.conversation_id, user_id, conversation.messages)
        conversation_dict ==
            [id |-> conversation.conversation_id,
             conversation_id |-> conversation.conversation_id,
             user_id |-> user_id,
             agent_id |-> conversation.agent,
             title |-> conversation.title,
             created_at |-> isoformat(conversation.created_at),
             last_updated_at |-> isoformat(conversation.last_updated_at),
             message_count |-> Len(conversation.messages),
             metadata |-> conversation.metadata]
    IN  IF ~saved.ret THEN Result(db, FALSE)
        ELSE Result([saved.db EXCEPT !.conversation_container =
                        Put(@, <<user_id, conversation.conversation_id>>, conversation_dict)], TRUE)

\* The loaded mapping: metadata without "id" and "message_count", plus messages.
CosmosLoaded(conversation_metadata, messages) ==
    [conversation_id |-> conversation_metadata.conversation_id,
     user_id |-> conversation_metadata.user_id,
     agent_id |-> conversation_metadata.agent_id,
     title |-> conversation_metadata.title,
     created_at |-> conversation_metadata.created_at,
     last_updated_at |-> conversation_metadata.last_updated_at,
     metadata |-> conversation_metadata.metadata,
     messages |-> messages]

\* load_conversation: the possible results (point read, then the query with
\* the user filter, both inside the partition user_id).
CosmosLoadConversation(db, conversation_id, user_id) ==
    IF <<user_id, conversation_id>> \notin DOMAIN db.conversation_container THEN {None}
    ELSE {CosmosLoaded(db.conversation_container[<<user_id, conversation_id>>], messages) :
             messages \in _load_messages(db, conversation_id)}

CosmosDeleteConversation(db, conversation_id, user_id) ==
    LET d1 == _delete_messages(db, conversation_id)
    IN  IF <<user_id, conversation_id>> \in DOMAIN d1.conversation_container
        THEN Result([d1 EXCEPT !.conversation_container = Remove(@, <<user_id, conversation_id>>)],
                    TRUE)
        ELSE Result(_delete_messages(d1, conversation_id), FALSE)

CosmosResetConversation(db, conversation_id, user_id, now) ==
    LET d1 == _delete_messages(db, conversation_id)
    IN  IF <<user_id, conversation_id>> \in DOMAIN d1.conversation_container
        THEN Result([d1 EXCEPT !.conversation_container[<<user_id, conversation_id>>] =
                        [@ EXCEPT !.last_updated_at = isoformat(now), !.message_count = 0]], TRUE)
        ELSE Result(d1, FALSE)

CosmosAppendMessage(db, conversation_id, user_id, message, now) ==
    IF <<user_id, conversation_id>> \notin DOMAIN db.conversation_container
    THEN Result(db, FALSE)
    ELSE LET current_count == db.conversation_container[<<user_id, conversation_id>>].message_count
             sequence == current_count
             message_dict == MessageItem(conversation_id, user_id, message, sequence)
         IN  Result([db EXCEPT
                        !.messages_container = UpsertMessage(@, message_dict),
                        !.conversation_container[<<user_id, conversation_id>>] =
                            [@ EXCEPT !.message_count = current_count + 1,
                                      !.last_updated_at = isoformat(now)]], TRUE)

\* ============================================================ list_conversations
\* all(conv.get(k) == v for k, v in filters.items())
MatchesFilters(doc, filters) ==
    \A k \in DOMAIN filters : k \in DOMAIN doc /\ doc[k] = filters[k]

ListResult(items, continuation_token, total_count) ==
    [items |-> items, continuation_token |-> continuation_token, total_count |-> total_count]

\* f"index:{n}"
IndexToken(n) == [index |-> n]

\* The start index read from a continuation token ("index:N"), 0 without one.
StartIndex(continuation_token) ==
    IF continuation_token # None /\ "index" \in DOMAIN continuation_token
    THEN continuation_token.index ELSE 0

Min(a, b) == IF a <= b THEN a ELSE b

\* Python's seq[start:end] for 0 <= start, end <= len(seq).
Slice(seq, start, end) == IF start >= end THEN <<>> ELSE SubSeq(seq, start + 1, end)

\* sorted(..., key=last_updated_at, reverse=True): stable, most recent first.
RECURSIVE SortedByUpdatedDesc(_)
SortedByUpdatedDesc(seq) ==
    IF seq = <<>> THEN <<>>
    ELSE LET rest == SortedByUpdatedDesc(SubSeq(seq, 1, Len(seq) - 1))
             x == seq[Len(seq)]
             before == SelectSeq(rest, LAMBDA y : fromisoformat(y.last_updated_at)
                                                  >= fromisoformat(x.last_updated_at))
             after == SelectSeq(rest, LAMBDA y : fromisoformat(y.last_updated_at)
                                                 < fromisoformat(x.last_updated_at))
         IN  before \o <<x>> \o after

MemListConversations(db, user_id, filters, page_size, continuation_token) ==
    IF user_id \notin DOMAIN db.store THEN ListResult(<<>>, None, 0)
    ELSE LET user_conversations == db.store[user_id]
             filtered_conversations ==
                 SelectSeq(user_conversations, LAMBDA conv : MatchesFilters(conv, filters))
             total_count == Len(filtered_conversations)
             sorted_conversations == SortedByUpdatedDesc(filtered_conversations)
             start_index == StartIndex(continuation_token)
             end_index == Min(start_index + page_size, Len(sorted_conversations))
             page_items == Slice(sorted_conversations, start_index, end_index)
         IN  ListResult(page_items,
                        IF end_index < Len(sorted_conversations) THEN IndexToken(end_index)
                        ELSE None,
                        total_count)

\* ord() of the characters that occur in file paths.
Ord(ch) ==
    CASE ch = "base_dir/" -> 0
      [] ch = ".json" -> 46
      [] ch = ":" -> 58
      [] ch = "_" -> 95
      [] ch = "a" -> 97
      [] ch = "b" -> 98
      [] ch = "c" -> 99
      [] OTHER -> 200 + (CHOOSE n \in 0..(2 * MaxClock + 2) : ch = "u" \o ToString(n))

\* Python's s < t on strings.
RECURSIVE StrLess(_, _)
StrLess(s, t) ==
    IF t = <<>> THEN FALSE
    ELSE IF s = <<>> THEN TRUE
    ELSE IF Ord(Head(s)) # Ord(Head(t)) THEN Ord(Head(s)) < Ord(Head(t))
    ELSE StrLess(Tail(s), Tail(t))

\* glob.glob(base_dir/{user_id}_*.json)
GlobMatches(user_id, path) ==
    LET prefix == BaseDir \o user_id \o <<"_">>
    IN  /\ IsPrefix(prefix, path)
        /\ IsSuffix(<<".json">>, path)
        /\ Len(path) >= Len(prefix) + 1

\* sorted(paths, reverse=True)
RECURSIVE SortedReverse(_)
SortedReverse(paths) ==
    IF paths = {} THEN <<>>
    ELSE LET top == CHOOSE p \in paths : \A q \in paths : q = p \/ StrLess(q, p)
         IN  <<top>> \o SortedReverse(paths \ {top})

\* {k: data[k] for k in data if k != "messages"}
WithoutMessages(data) == [k \in DOMAIN data \ {"messages"} |-> data[k]]

JsonListConversations(db, user_id, filters, page_size, continuation_token) ==
    LET files == SortedReverse({p \in DOMAIN db.files : GlobMatches(user_id, p)})
        start_index == StartIndex(continuation_token)
        end_index == Min(start_index + page_size, Len(files))
        page_files == Slice(files, start_index, end_index)
        kept == SelectSeq(page_files, LAMBDA fp : /\ Readable(db, fp)
                                                   /\ MatchesFilters(db.files[fp], filters))
        items == SeqMap(LAMBDA fp : WithoutMessages(db.files[fp]), kept)
    IN  ListResult(items,
                   IF end_index < Len(files) THEN IndexToken(end_index) ELSE None,
                   Len(files))

\* The orders "ORDER BY c.last_updated_at DESC" may return the items in.
RECURSIVE OrderedByUpdatedDesc(_)
OrderedByUpdatedDesc(items) ==
    IF items = {} THEN {<<>>}
    ELSE LET firsts == {d \in items : \A e \in items :
                           fromisoformat(d.last_updated_at) >= fromisoformat(e.last_updated_at)}
         IN  UNION {{<<d>> \o rest : rest \in OrderedByUpdatedDesc(items \ {d})} : d \in firsts}

\* A listed CosmosDB item: the metadata record without "id".
WithoutId(item) == [k \in DOMAIN item \ {"id"} |-> item[k]]

\* list_conversations of the CosmosDB backend: the possible results.  The
\* query runs in the partition user_id with filters["user_id"] = user_id;
\* list(query_result) drains every page and the continuation_token argument
\* is not used.
CosmosListConversations(db, user_id, filters, page_size, continuation_token) ==
    LET cc == db.conversation_container
        all_filters == Put(filters, "user_id", user_id)
        matching == {cc[k] : k \in {x \in DOMAIN cc :
                                       x[1] = user_id /\ MatchesFilters(cc[x], all_filters)}}
    IN  {ListResult(SeqMap(WithoutId, s), None, Cardinality(matching)) :
            s \in OrderedByUpdatedDesc(matching)}

\* ===================================================== PersistenceStrategy calls
save_conversation(db, b, conversation, user_id) ==
    CASE b = "memory" -> MemSaveConversation(db, conversation, user_id)
      [] b = "json" -> JsonSaveConversation(db, conversation, user_id)
      [] b = "cosmos" -> CosmosSaveConversation(db, conversation, user_id)

\* The set of values load_conversation may return (one value, except for the
\* CosmosDB backend when message records share a sequence).
load_conversation(db, b, conversation_id, user_id) ==
    CASE b = "memory" -> {MemLoadConversation(db, conversation_id, user_id)}
      [] b = "json" -> {JsonLoadConversation(db, conversation_id, user_id)}
      [] b = "cosmos" -> CosmosLoadConversation(db, conversation_id, user_id)

delete_conversation(db, b, conversation_id, user_id) ==
    CASE b = "memory" -> MemDeleteConversation(db, conversation_id, user_id)
      [] b = "json" -> JsonDeleteConversation(db, conversation_id, user_id)
      [] b = "cosmos" -> CosmosDeleteConversation(db, conversation_id, user_id)

reset_conversation(db, b, conversation_id, user_id, now) ==
    CASE b = "memory" -> MemResetConversation(db, conversation_id, user_id, now)
      [] b = "json" -> JsonResetConversation(db, conversation_id, user_id, now)
      [] b = "cosmos" -> CosmosResetConversation(db, conversation_id, user_id, now)

append_message(db, b, conversation_id, user_id, message, now) ==
    CASE b = "memory" -> MemAppendMessage(db, conversation_id, user_id, message, now)
      [] b = "json" -> JsonAppendMessage(db, conversation_id, user_id, message, now)
      [] b = "cosmos" -> CosmosAppendMessage(db, conversation_id, user_id, message, now)

\* The set of values list_conversations may return.
list_conversations(db, b, user_id, filters, page_size, continuation_token) ==
    CASE b = "memory" ->
            {MemListConversations(db, user_id, filters, page_size, continuation_token)}
      [] b = "json" ->
            {JsonListConversations(db, user_id, filters, page_size, continuation_token)}
      [] b = "cosmos" ->
            CosmosListConversations(db, user_id, filters, page_size, continuation_token)

\* ========================================================== ConversationService
\* str(uuid.uuid4()): the k-th identifier drawn by the call running at time now.
uuid4(now, k) == "u" \o ToString(2 * now + k)

\* msg_data.get("attachments", [])
StoredAttachments(msg_data) ==
    IF "attachments" \in DOMAIN msg_data THEN msg_data.attachments ELSE <<>>

\* attachment["type"]["_name_"] raises TypeError when "type" is an Enum member.
AttachmentRaises(attachment) == attachment.form = "dump"

\* The attachments _create_conversation_from_data rebuilds: a recognised tag
\* gives the Graph/Media object, any other attachment is dropped.
FormatAttachments(attachments) ==
    SeqMap(LAMBDA att : Attachment("object", att.type),
           SelectSeq(attachments,
                     LAMBDA att : att.form = "json"
                                  /\ att.type \in GraphTypeMembers \cup MediaTypeMembers))

MessageFromData(msg_data) ==
    Message(msg_data.message_id, msg_data.role, msg_data.content, msg_data.citations,
            msg_data.metadata, FormatAttachments(StoredAttachments(msg_data)))

\* _create_conversation_from_data: [raised |-> TRUE], or the Conversation.
_create_conversation_from_data(conversation_data, agent) ==
    IF \E i \in 1..Len(conversation_data.messages) :
          \E j \in 1..Len(StoredAttachments(conversation_data.messages[i])) :
             AttachmentRaises(StoredAttachments(conversation_data.messages[i])[j])
    THEN [raised |-> TRUE]
    ELSE [raised |-> FALSE,
          conversation |->
              Conversation(conversation_data.conversation_id, agent, conversation_data.title,
                           fromisoformat(conversation_data.created_at),
                           fromisoformat(conversation_data.last_updated_at),
                           SeqMap(MessageFromData, conversation_data.messages),
                           conversation_data.metadata)]

\* What agent.process does in a turn: it returns a message, with or without an
\* attachment, or it raises.
AgentOutcomes == {"reply", "reply_with_attachment", "raise"}

AgentResponse(outcome, now) ==
    Message(uuid4(now, 2), "assistant", "answer", <<>>, [k |-> "tool_usage"],
            IF outcome = "reply_with_attachment" THEN <<GraphAttachment("PIE")>> ELSE <<>>)

UserMessage(user_id, message_content, now) ==
    Message(uuid4(now, 1), "user", message_content, <<>>, [user_id |-> user_id], <<>>)

\* The storage after send_message appended the user message (the result of
\* append_message is not looked at).
UserAppended(db, b, conversation_id, user_id, message_content, now) ==
    append_message(db, b, conversation_id, user_id,
                   UserMessage(user_id, message_content, now), now).db

\* The storage after send_message also appended the agent's response.
BothAppended(db, b, conversation_id, user_id, message_content, outcome, now) ==
    append_message(UserAppended(db, b, conversation_id, user_id, message_content, now),
                   b, conversation_id, user_id, AgentResponse(outcome, now), now).db

SendOutcome(db, ret, user_message, response) ==
    [db |-> db, ret |-> ret, user_message |-> user_message, response |-> response]

\* send_message, given the values its two load_conversation calls return
\* (conversation_data before the appends, updated_conversation_data after
\* them).  ret is "returned" or the exception raised.
send_message(db, b, agents, conversation_id, user_id, message_content, outcome, now, conversation_data, updated_conversation_data) ==
    LET user_message == UserMessage(user_id, message_content, now)
        d1 == UserAppended(db, b, conversation_id, user_id, message_content, now)
        agent_id == conversation_data.agent_id
        agent_response == AgentResponse(outcome, now)
        d2 == BothAppended(db, b, conversation_id, user_id, message_content, outcome, now)
        bumped == [updated_conversation_data EXCEPT !.last_updated_at = isoformat(now)]
        rebuilt == _create_conversation_from_data(bumped, agent_id)
    IN  IF conversation_data = None
        THEN SendOutcome(db, "ValueError: conversation not found", user_message, None)
        ELSE IF agent_id \notin agents
             THEN SendOutcome(d1, "ValueError: agent not available", user_message, None)
        ELSE IF outcome = "raise" THEN SendOutcome(d1, "AgentError", user_message, None)
        ELSE IF updated_conversation_data = None
             THEN SendOutcome(d2, "ValueError: conversation not found after update",
                              user_message, agent_response)
        ELSE IF rebuilt.raised THEN SendOutcome(d2, "TypeError", user_message, agent_response)
        ELSE SendOutcome(save_conversation(d2, b, rebuilt.conversation, user_id).db,
                         "returned", user_message, agent_response)

\* ConversationService.load_conversation, given what the persistence
\* load_conversation returned: ret is "none", "found" or the exception raised.
service_load_conversation(registry, conversation_data) ==
    IF conversation_data = None THEN [ret |-> "none", conversation |-> None]
    ELSE IF conversation_data.agent_id \notin registry THEN [ret |-> "none", conversation |-> None]
    ELSE LET rebuilt == _create_conversation_from_data(conversation_data,
                                                       conversation_data.agent_id)
         IN  IF rebuilt.raised THEN [ret |-> "TypeError", conversation |-> None]
             ELSE [ret |-> "found", conversation |-> rebuilt.conversation]

\* ----------------------------------------------------- create_conversation
\* AbstractAgent.name of the agent with that id.
AgentName(agent_id) == "name-" \o agent_id

\* An agent instance as the service reads it: its id and its name.
Agent(agent_id) == [id |-> agent_id, name |-> AgentName(agent_id)]

\* An Optional[str] argument that was given.
Some(v) == [some |-> v]

\* title, or f"Conversation with {agent.name}" when title is None.
TitleOrDefault(title, agent) ==
    IF title = None THEN "Conversation with " \o agent.name ELSE title.some

\* The ways the storage write of a new conversation can go: it succeeds; the
\* file cannot be opened / upsert_item raises (nothing is written); or the
\* file was opened for writing, and so truncated, and json.dump raises.
Faults == {"none", "write_refused", "write_cut_short"}

\* The faults a backend can meet: the in-memory dict has no write that fails,
\* a CosmosDB item is written whole or not at all.
FaultsOf(b) ==
    CASE b = "memory" -> {"none"}
      [] b = "json" -> Faults
      [] b = "cosmos" -> {"none", "write_refused"}

\* save_conversation of a conversation without messages under a fault: every
\* exception is caught and reported as False.
SaveNewConversation(db, b, conversation, user_id, fault) ==
    IF fault = "none" THEN save_conversation(db, b, conversation, user_id)
    ELSE IF b = "json" /\ fault = "write_cut_short"
         THEN Result([db EXCEPT !.files =
                         Put(@, _get_filepath(conversation.conversation_id, user_id), Corrupt)],
                     FALSE)
    ELSE Result(db, FALSE)

\* The faults a save_conversation call can meet.  For the CosmosDB backend
\* "write_refused" is upsert_item of the conversation metadata raising and
\* "message_write_refused" is upsert_item of the first message record raising.
SaveFaultsOf(b) ==
    IF b = "cosmos" THEN {"none", "write_refused", "message_write_refused"} ELSE FaultsOf(b)

\* save_conversation under a fault.  In the CosmosDB backend the messages are
\* rewritten before the metadata is upserted, and an upsert_item of a message
\* that raises is logged inside the loop of _save_messages: the other records
\* and the metadata are written and True is returned.
SaveUnderFault(db, b, conversation, user_id, fault) ==
    IF fault = "none" THEN save_conversation(db, b, conversation, user_id)
    ELSE IF b = "json" THEN SaveNewConversation(db, b, conversation, user_id, fault)
    ELSE IF fault = "write_refused"
         THEN Result(_save_messages(db, conversation.conversation_id, user_id,
                                    conversation.messages).db, FALSE)
    ELSE LET full == CosmosSaveConversation(db, conversation, user_id)
         IN  IF conversation.messages = <<>> THEN full
             ELSE Result([full.db EXCEPT !.messages_container =
                             Remove(@, <<conversation.conversation_id,
                                         MessageItemId(conversation.conversation_id,
                                                       conversation.messages[1].message_id)>>)],
                         TRUE)

CreateOutcome(db, registry, ret, saved, conversation) ==
    [db |-> db, agents |-> registry, ret |-> ret, saved |-> saved, conversation |-> conversation]

\* The Conversation both create operations build.
NewConversation(agent, user_id, title, now) ==
    Conversation(<<uuid4(now, 1)>>, agent.id, TitleOrDefault(title, agent), now, now, <<>>,
                 [user_id |-> user_id])

\* The save of the new conversation and what the caller gets.
SaveCreated(db, b, registry, conversation, user_id, fault) ==
    LET r == SaveNewConversation(db, b, conversation, user_id, fault)
    IN  IF ~r.ret THEN CreateOutcome(r.db, registry, "RuntimeError", "false", conversation)
        ELSE CreateOutcome(r.db, registry, "returned", "true", conversation)

\* create_conversation with the result of the save not looked at.
create_conversation_unchecked(db, b, registry, agent, user_id, title, now, fault) ==
    LET conversation == NewConversation(agent, user_id, title, now)
        r == SaveNewConversation(db, b, conversation, user_id, fault)
    IN  CreateOutcome(r.db, registry \cup {agent.id}, "returned",
                      IF r.ret THEN "true" ELSE "false", conversation)

create_conversation(db, b, registry, agent, user_id, title, now, fault) ==
    SaveCreated(db, b, registry \cup {agent.id}, NewConversation(agent, user_id, title, now),
                user_id, fault)

create_conversation_by_agent_id(db, b, registry, agent_id, user_id, title, now, fault) ==
    IF agent_id \notin registry
    THEN CreateOutcome(db, registry, "ValueError: agent not available", "none", None)
    ELSE SaveCreated(db, b, registry, NewConversation(Agent(agent_id), user_id, title, now),
                     user_id, fault)

\* ================================================================ agent backends
\* The two families of agent: AbstractLlamaIndexAgent keeps its history as a
\* list of dicts (_chat_history), AbstractSemanticKernelAgent as a ChatHistory
\* of ChatMessageContent items (_chat.messages).
AgentBackends == {"llama_index", "semantic_kernel"}

\* A persisted message as update_chat_history receives it.
PersistedMessage(role, content, created_at) ==
    [role |-> role, content |-> content, created_at |-> created_at]

\* A core.common.Message instance handed to update_chat_history: its
\* created_at is a datetime, that of a persisted mapping is a string.
MessageObject(role, content, created_at) ==
    [role |-> role, content |-> content, created_at |-> created_at, model |-> "Message"]

\* isinstance(message, Message)
IsMessageObject(message) == "model" \in DOMAIN message

\* {"role": ..., "content": ...} / ChatMessageContent(role=..., content=...)
ChatMessageContent(role, content) == [role |-> role, content |-> content]

\* [msg for msg in history if msg.role == "system"]
system_messages(history) == SelectSeq(history, LAMBDA msg : msg.role = "system")

\* [msg for msg in history if msg.role != "system"]
non_system_messages(history) == SelectSeq(history, LAMBDA msg : msg.role # "system")

Max(a, b) == IF a >= b THEN a ELSE b

\* max(0, max_history_length - len(system_messages)), with the system
\* messages not counted.
remaining_slots_without_system(history, max_history_length) == Max(0, max_history_length)

\* max(0, max_history_length - len(system_messages))
remaining_slots(history, max_history_length) ==
    Max(0, max_history_length - Len(system_messages(history)))

\* seq[1:] if n > 0 else []: the oldest message is dropped.
recent_messages_dropping_oldest(seq, n) ==
    IF n > 0 /\ seq # <<>> THEN Tail(seq) ELSE <<>>

\* seq[-n:] if n > 0 else []
recent_messages(seq, n) ==
    IF n <= 0 THEN <<>>
    ELSE IF n >= Len(seq) THEN seq
    ELSE SubSeq(seq, Len(seq) - n + 1, Len(seq))

\* system_messages + recent_messages
Kept(history, max_history_length) ==
    system_messages(history)
       \o recent_messages(non_system_messages(history),
                          remaining_slots(history, max_history_length))

\* AbstractLlamaIndexAgent._prune_chat_history
LlamaPruneChatHistory(chat_history, max_history_length) ==
    IF Len(chat_history) >= max_history_length
    THEN Kept(chat_history, max_history_length)
    ELSE chat_history

\* The roles the SemanticKernel pruner adds back to the new ChatHistory.
ReaddedRoles == {"system", "user", "assistant"}

\* new_chat.add_system_message / add_user_message / add_assistant_message of
\* each kept message: a message of any other role is not added.
Readded(seq) ==
    SeqMap(LAMBDA msg : ChatMessageContent(msg.role, msg.content), 
           SelectSeq(seq, LAMBDA msg : msg.role \in ReaddedRoles))

\* AbstractSemanticKernelAgent._prune_chat_history
SkPruneChatHistory(chat_history, max_history_length) ==
    IF Len(chat_history) >= max_history_length
    THEN Readded(Kept(chat_history, max_history_length))
    ELSE chat_history

_prune_chat_history(kind, chat_history, max_history_length) ==
    IF kind = "llama_index" THEN LlamaPruneChatHistory(chat_history, max_history_length)
    ELSE SkPruneChatHistory(chat_history, max_history_length)

\* ------------------------------------------------------- update_chat_history
\* AbstractLlamaIndexAgent.update_chat_history: the history is pruned, then
\* every message is appended.
LlamaUpdateChatHistory(chat_history, max_history_length, messages) ==
    LlamaPruneChatHistory(chat_history, max_history_length)
       \o SeqMap(LAMBDA message :
                    IF IsMessageObject(message)
                    THEN PersistedMessage(message.role, message.content, message.created_at)
                    ELSE message,
                 messages)

\* A datetime and a string cannot be ordered: "<" raises TypeError.
Comparable(a, b) == IsMessageObject(a) = IsMessageObject(b)

\* list.sort raises when a comparison it makes raises.  In a list of up to
\* three elements every comparison that can raise is made while the first run
\* is counted, before any element is moved, and the list stays as it was.
SortRaises(seq) == \E i, j \in 1..Len(seq) : ~Comparable(seq[i], seq[j])

\* list.sort(key=created_at): stable, ascending.
RECURSIVE InsertByCreatedAt(_, _)
InsertByCreatedAt(sorted, msg) ==
    IF sorted = <<>> THEN <<msg>>
    ELSE IF sorted[Len(sorted)].created_at <= msg.created_at THEN Append(sorted, msg)
    ELSE Append(InsertByCreatedAt(SubSeq(sorted, 1, Len(sorted) - 1), msg), sorted[Len(sorted)])

RECURSIVE SortedByCreatedAt(_)
SortedByCreatedAt(seq) ==
    IF seq = <<>> THEN <<>>
    ELSE InsertByCreatedAt(SortedByCreatedAt(SubSeq(seq, 1, Len(seq) - 1)), seq[Len(seq)])

\* The roles update_chat_history of the SemanticKernel agent adds.
AddedRoles == {"user", "agent", "assistant", "system"}

\* add_user_message / add_assistant_message ("agent" or "assistant") /
\* add_system_message
AddedMessage(msg) ==
    ChatMessageContent(IF msg.role = "agent" THEN "assistant" ELSE msg.role, msg.content)

\* system_messages + non_system_messages[-limit:], sorted by created_at.
\* The exception of a failed sort is passed over.
messages_to_add(max_history_length, messages) ==
    IF SortRaises(Kept(messages, max_history_length))
    THEN Kept(messages, max_history_length)
    ELSE SortedByCreatedAt(Kept(messages, max_history_length))

\* AbstractSemanticKernelAgent.update_chat_history: the history is cleared and
\* rebuilt from the messages.
SkUpdateChatHistory(chat_history, max_history_length, messages) ==
    SeqMap(AddedMessage, SelectSeq(messages_to_add(max_history_length, messages),
                                    LAMBDA msg : msg.role \in AddedRoles))

update_chat_history(kind, chat_history, max_history_length, messages) ==
    IF kind = "llama_index"
    THEN LlamaUpdateChatHistory(chat_history, max_history_length, messages)
    ELSE SkUpdateChatHistory(chat_history, max_history_length, messages)

\* -------------------------------------------------------------------- process
\* What the wrapped framework does with the query: it answers; it yields a
\* tool-role message and then the answer; or it raises.
FrameworkOutcomes == {"reply", "tool_reply", "fail"}

\* LlamaIndex's aquery returns one response or raises; ChatCompletionAgent.invoke
\* yields messages that carry the role the framework gave them.
OutcomesOf(kind) ==
    IF kind = "llama_index" THEN {"reply", "fail"} ELSE FrameworkOutcomes

\* The Message process returns, as far as the caller can tell one from another.
AgentMessage(role, content, metadata) ==
    [role |-> role, content |-> content, metadata |-> metadata]

ProcessResult(chat_history, raised, message) ==
    [chat_history |-> chat_history, raised |-> raised, message |-> message]

\* AbstractLlamaIndexAgent.process
LlamaProcess(chat_history, max_history_length, message, outcome) ==
    LET asked == Append(LlamaPruneChatHistory(chat_history, max_history_length),
                        ChatMessageContent("user", message))
    IN  IF outcome = "fail"
        THEN ProcessResult(asked, FALSE,
                           AgentMessage("assistant",
                                        "I encountered an error while processing your message: e",
                                        [error |-> "e"]))
        ELSE ProcessResult(Append(asked, ChatMessageContent("assistant", "r")), FALSE,
                           AgentMessage("assistant", "r", [tool_usage |-> <<>>]))

\* The messages ChatCompletionAgent.invoke yields.
Responses(outcome) ==
    IF outcome = "tool_reply"
    THEN <<ChatMessageContent("tool", "t"), ChatMessageContent("assistant", "r")>>
    ELSE <<ChatMessageContent("assistant", "r")>>

\* "\n".join(responses)
JoinedContent(responses) ==
    IF Len(responses) = 1 THEN responses[1].content
    ELSE responses[1].content \o "\n" \o responses[2].content

\* AbstractSemanticKernelAgent.process: the framework call is not inside a
\* try block, what it raises leaves process.
SkProcess(chat_history, max_history_length, message, outcome) ==
    LET asked == Append(SkPruneChatHistory(chat_history, max_history_length),
                        ChatMessageContent("user", message))
    IN  IF outcome = "fail"
        THEN ProcessResult(asked, TRUE, None)
        ELSE ProcessResult(asked \o Responses(outcome), FALSE,
                           AgentMessage("assistant", JoinedContent(Responses(outcome)),
                                        [tool_usage |-> <<>>]))

process(kind, chat_history, max_history_length, message, outcome) ==
    IF kind = "llama_index" THEN LlamaProcess(chat_history, max_history_length, message, outcome)
    ELSE SkProcess(chat_history, max_history_length, message, outcome)

\* ======================================================================= state
VARIABLES
    backend,                  \* which PersistenceStrategy the service was built with
    store,                    \* InMemoryPersistenceStrategy._store
    files,                    \* the files of JsonFilePersistenceStrategy.base_dir
    conversation_container,   \* CosmosDB container of conversation metadata
    messages_container,       \* CosmosDB container of message records
    agents,                   \* ConversationService._agents (the ids registered)
    clock,                    \* datetime.now()
    last,                     \* the call that was made last, with what it returned
    kind,                     \* the family of the agent instance
    max_history_length,       \* its _max_history_length
    chat_history,             \* its _chat_history / _chat.messages
    call,                     \* the agent method that ran last, with what it returned
    tools,                    \* the agent's _tools, by tool name
    backend_tools,            \* the tools registered with the wrapped framework, by name
    tool_usage,               \* the agent's _tool_usage
    attachments,              \* the agent's _attachments
    running,                  \* the process calls in flight on the agent
    sends,                    \* the send_message calls in flight on the service
    appended                  \* the message ids whose append_message returned true

service_vars == <<backend, store, files, conversation_container, messages_container, agents, clock, last>>

agent_vars == <<kind, max_history_length, chat_history, call>>

tool_vars == <<tools, backend_tools, tool_usage, attachments, running>>

send_vars == <<sends, appended>>

vars == <<backend, store, files, conversation_container, messages_container, agents, clock, last, kind, max_history_length, chat_history, call, tools, backend_tools, tool_usage, attachments, running, sends, appended>>

DB == MakeDB(store, files, conversation_container, messages_container)

SetDB(db) ==
    /\ store' = db.store
    /\ files' = db.files
    /\ conversation_container' = db.conversation_container
    /\ messages_container' = db.messages_container

Call(op, conversation_id, user_id, arg, ret, result) ==
    [op |-> op, conversation_id |-> conversation_id, user_id |-> user_id,
     arg |-> arg, ret |-> ret, result |-> result]

BoolRet(b) == IF b THEN "true" ELSE "false"

\* An agent method call: its argument, the history it found, what it returned.
AgentCall(op, arg, before, result) ==
    [op |-> op, arg |-> arg, before |-> before, result |-> result]

\* settings.get("max_history_length", 20) if settings else 20
DefaultMaxHistoryLength == 20

\* The process calls that can be in flight on one agent instance: one per
\* conversation that names the agent.
Calls == {"c1", "c2"}

Idle == [pc |-> "idle", invoked |-> <<>>]

\* An agent built without tools, no process call running.
NoToolActivity ==
    /\ tools = EmptyMap
    /\ backend_tools = EmptyMap
    /\ tool_usage = <<>>
    /\ attachments = <<>>
    /\ running = [c \in Calls |-> Idle]

\* The send_message calls that can be in flight on one service.
Senders == {"s1", "s2"}

NotSending == [pc |-> "idle"]

\* No send_message call in flight, no append_message acknowledged.
NoSends ==
    /\ sends = [s \in Senders |-> NotSending]
    /\ appended = {}

Init ==
    /\ backend \in Backends
    /\ store = EmptyMap
    /\ files = EmptyMap
    /\ conversation_container = EmptyMap
    /\ messages_container = EmptyMap
    /\ agents = RegisteredAgents
    /\ clock = 0
    /\ last = Call("init", <<>>, <<>>, None, "none", None)
    /\ kind = "llama_index"
    /\ max_history_length = DefaultMaxHistoryLength
    /\ chat_history = <<>>
    /\ call = AgentCall("init", None, <<>>, None)
    /\ NoToolActivity
    /\ NoSends

\* Every call takes one unit of time.  The service's calls are followed with
\* the agent's own history left out.
Tick == clock < MaxClock /\ clock' = clock + 1 /\ UNCHANGED <<backend, agent_vars, tool_vars, send_vars>>

\* A call that leaves the agent registry alone.
Step == Tick /\ UNCHANGED agents

SaveConversation ==
    /\ Step
    /\ \E user_id \in UserIds, conversation_id \in ConvIds, t \in {0, clock} :
         \E conversation \in SampleConversations(conversation_id, user_id, t),
            fault \in SaveFaultsOf(backend) :
            LET r == SaveUnderFault(DB, backend, conversation, user_id, fault)
            IN  /\ SetDB(r.db)
                /\ last' = Call("save_conversation", conversation_id, user_id, conversation,
                                BoolRet(r.ret), [fault |-> fault])

LoadConversation ==
    /\ Step
    /\ \E user_id \in UserIds, conversation_id \in ConvIds :
         \E data \in load_conversation(DB, backend, conversation_id, user_id) :
            /\ SetDB(DB)
            /\ last' = Call("load_conversation", conversation_id, user_id, None,
                            IF data = None THEN "none" ELSE "found", data)

DeleteConversation ==
    /\ Step
    /\ \E user_id \in UserIds, conversation_id \in ConvIds :
         LET r == delete_conversation(DB, backend, conversation_id, user_id)
         IN  /\ SetDB(r.db)
             /\ last' = Call("delete_conversation", conversation_id, user_id, None,
                             BoolRet(r.ret), None)

ResetConversation ==
    /\ Step
    /\ \E user_id \in UserIds, conversation_id \in ConvIds :
         LET r == reset_conversation(DB, backend, conversation_id, user_id, clock)
         IN  /\ SetDB(r.db)
             /\ last' = Call("reset_conversation", conversation_id, user_id, None,
                             BoolRet(r.ret), None)

AppendMessage ==
    /\ Step
    /\ \E user_id \in UserIds, conversation_id \in ConvIds, message \in PoolMessages :
         LET r == append_message(DB, backend, conversation_id, user_id, message, clock)
         IN  /\ SetDB(r.db)
             /\ last' = Call("append_message", conversation_id, user_id, message,
                             BoolRet(r.ret), None)

\* The filters, page sizes and tokens callers pass to list_conversations.
FilterInputs == {EmptyMap, [agent_id |-> "ag1"]}

PageSizes == {2}

TokenInputs == {None}

ListConversations ==
    /\ Step
    /\ \E user_id \in UserIds, filters \in FilterInputs, page_size \in PageSizes,
          continuation_token \in TokenInputs :
         \E result \in list_conversations(DB, backend, user_id, filters, page_size,
                                          continuation_token) :
            /\ SetDB(DB)
            /\ last' = Call("list_conversations", <<>>, user_id,
                            [filters |-> filters, page_size |-> page_size,
                             continuation_token |-> continuation_token],
                            "returned", result)

SendMessage ==
    /\ Step
    /\ \E user_id \in UserIds, conversation_id \in ConvIds, outcome \in AgentOutcomes :
         \E conversation_data \in load_conversation(DB, backend, conversation_id, user_id) :
            \E updated_conversation_data \in
                  load_conversation(BothAppended(DB, backend, conversation_id, user_id,
                                                 "question", outcome, clock),
                                    backend, conversation_id, user_id) :
               LET r == send_message(DB, backend, agents, conversation_id, user_id, "question",
                                     outcome, clock, conversation_data,
                                     updated_conversation_data)
               IN  /\ SetDB(r.db)
                   /\ last' = Call("send_message", conversation_id, user_id,
                                   [user_message |-> r.user_message, outcome |-> outcome],
                                   r.ret, r.response)

ServiceLoadConversation ==
    /\ Step
    /\ \E user_id \in UserIds, conversation_id \in ConvIds :
         \E conversation_data \in load_conversation(DB, backend, conversation_id, user_id) :
            LET r == service_load_conversation(agents, conversation_data)
            IN  /\ SetDB(DB)
                /\ last' = Call("service_load_conversation", conversation_id, user_id, None,
                                r.ret, r.conversation)

\* The agents and titles callers pass to the create operations.
AgentInputs == {"ag1", "ag2"}

TitleInputs == {None, Some("t1")}

CreateConversation ==
    /\ Tick
    /\ \E user_id \in UserIds, agent_id \in AgentInputs, title \in TitleInputs,
          fault \in FaultsOf(backend) :
         LET r == create_conversation(DB, backend, agents, Agent(agent_id), user_id, title,
                                      clock, fault)
         IN  /\ SetDB(r.db)
             /\ agents' = r.agents
             /\ last' = Call("create_conversation", <<uuid4(clock, 1)>>, user_id,
                             [agent_id |-> agent_id, title |-> title, saved |-> r.saved],
                             r.ret, r.conversation)

CreateConversationByAgentId ==
    /\ Tick
    /\ \E user_id \in UserIds, agent_id \in AgentInputs, title \in TitleInputs,
          fault \in FaultsOf(backend) :
         LET r == create_conversation_by_agent_id(DB, backend, agents, agent_id, user_id,
                                                  title, clock, fault)
         IN  /\ SetDB(r.db)
             /\ agents' = r.agents
             /\ last' = Call("create_conversation_by_agent_id", <<uuid4(clock, 1)>>, user_id,
                             [agent_id |-> agent_id, title |-> title, saved |-> r.saved],
                             r.ret, r.conversation)

Next ==
    \/ CreateConversation
    \/ CreateConversationByAgentId
    \/ SaveConversation
    \/ LoadConversation
    \/ DeleteConversation
    \/ ResetConversation
    \/ AppendMessage
    \/ ListConversations
    \/ SendMessage
    \/ ServiceLoadConversation

Spec == Init /\ [][Next]_vars

\* ============================================================ one agent instance
\* The greatest max_history_length an agent is built with.
MaxConfiguredLength == 2

\* The longest history followed.
MaxHistory == 4

\* The longest list handed to update_chat_history.
MaxMessages == 2

HistoryLengthInputs == 0..MaxConfiguredLength

\* The persisted messages update_chat_history is given.
PersistedPool ==
    {PersistedMessage("system", "s", 1), PersistedMessage("user", "a", 1),
     PersistedMessage("assistant", "b", 2), PersistedMessage("agent", "c", 3),
     MessageObject("user", "d", 1)}

RECURSIVE SeqsUpTo(_, _)
SeqsUpTo(S, n) ==
    IF n = 0 THEN {<<>>}
    ELSE SeqsUpTo(S, n - 1) \cup {Append(s, x) : s \in SeqsUpTo(S, n - 1), x \in S}

MessageLists == SeqsUpTo(PersistedPool, MaxMessages)

\* The agent right after construction, the service's storage being empty.
AgentInit ==
    /\ backend = "memory"
    /\ store = EmptyMap
    /\ files = EmptyMap
    /\ conversation_container = EmptyMap
    /\ messages_container = EmptyMap
    /\ agents = RegisteredAgents
    /\ clock = 0
    /\ last = Call("init", <<>>, <<>>, None, "none", None)
    /\ kind \in AgentBackends
    /\ max_history_length \in HistoryLengthInputs
    /\ chat_history = <<>>
    /\ call = AgentCall("init", None, <<>>, None)
    /\ NoToolActivity
    /\ NoSends

AgentStep == UNCHANGED <<service_vars, kind, max_history_length, tool_vars, send_vars>>

PruneChatHistory ==
    /\ AgentStep
    /\ chat_history' = _prune_chat_history(kind, chat_history, max_history_length)
    /\ call' = AgentCall("_prune_chat_history", None, chat_history, None)

UpdateChatHistory ==
    /\ AgentStep
    /\ \E messages \in MessageLists :
         /\ chat_history' = update_chat_history(kind, chat_history, max_history_length, messages)
         /\ Len(chat_history') <= MaxHistory
         /\ call' = AgentCall("update_chat_history", messages, chat_history, None)

Process ==
    /\ AgentStep
    /\ \E outcome \in OutcomesOf(kind) :
         LET r == process(kind, chat_history, max_history_length, "q", outcome)
         IN  /\ Len(r.chat_history) <= MaxHistory
             /\ chat_history' = r.chat_history
             /\ call' = AgentCall("process", [message |-> "q", outcome |-> outcome],
                                  chat_history, r)

AgentNext ==
    \/ PruneChatHistory
    \/ UpdateChatHistory
    \/ Process

AgentSpec == AgentInit /\ [][AgentNext]_vars


\* ================================================= the three backends side by side
\* Every call is made on the in-memory, the JSON and the CosmosDB strategy in
\* turn, each working on its own part of the storage; ret and result hold the
\* three outcomes in that order.
LockstepInit ==
    /\ backend = "all"
    /\ store = EmptyMap
    /\ files = EmptyMap
    /\ conversation_container = EmptyMap
    /\ messages_container = EmptyMap
    /\ agents = RegisteredAgents
    /\ clock = 0
    /\ last = Call("init", <<>>, <<>>, None, <<"none", "none", "none">>, <<None, None, None>>)
    /\ kind = "llama_index"
    /\ max_history_length = DefaultMaxHistoryLength
    /\ chat_history = <<>>
    /\ call = AgentCall("init", None, <<>>, None)
    /\ NoToolActivity
    /\ NoSends

\* The message ids of what load_conversation returned, None when absent.
LoadedIds(data) ==
    IF data = None THEN None
    ELSE [i \in 1..Len(data.messages) |-> data.messages[i].message_id]

\* The conversation ids of a listing, in the order listed.
ListedIds(result) == [i \in 1..Len(result.items) |-> result.items[i].conversation_id]

LockstepSave ==
    /\ Step
    /\ \E user_id \in UserIds, conversation_id \in ConvIds, t \in {0, clock} :
         \E conversation \in SampleConversations(conversation_id, user_id, t) :
            LET m == save_conversation(DB, "memory", conversation, user_id)
                j == save_conversation(m.db, "json", conversation, user_id)
                c == save_conversation(j.db, "cosmos", conversation, user_id)
            IN  /\ SetDB(c.db)
                /\ last' = Call("save_conversation", conversation_id, user_id, conversation,
                                <<BoolRet(m.ret), BoolRet(j.ret), BoolRet(c.ret)>>,
                                <<None, None, None>>)

LockstepAppend ==
    /\ Step
    /\ \E user_id \in UserIds, conversation_id \in ConvIds, message \in PoolMessages :
         LET m == append_message(DB, "memory", conversation_id, user_id, message, clock)
             j == append_message(m.db, "json", conversation_id, user_id, message, clock)
             c == append_message(j.db, "cosmos", conversation_id, user_id, message, clock)
         IN  /\ SetDB(c.db)
             /\ last' = Call("append_message", conversation_id, user_id, message,
                             <<BoolRet(m.ret), BoolRet(j.ret), BoolRet(c.ret)>>,
                             <<None, None, None>>)

LockstepReset ==
    /\ Step
    /\ \E user_id \in UserIds, conversation_id \in ConvIds :
         LET m == reset_conversation(DB, "memory", conversation_id, user_id, clock)
             j == reset_conversation(m.db, "json", conversation_id, user_id, clock)
             c == reset_conversation(j.db, "cosmos", conversation_id, user_id, clock)
         IN  /\ SetDB(c.db)
             /\ last' = Call("reset_conversation", conversation_id, user_id, None,
                             <<BoolRet(m.ret), BoolRet(j.ret), BoolRet(c.ret)>>,
                             <<None, None, None>>)

LockstepDelete ==
    /\ Step
    /\ \E user_id \in UserIds, conversation_id \in ConvIds :
         LET m == delete_conversation(DB, "memory", conversation_id, user_id)
             j == delete_conversation(m.db, "json", conversation_id, user_id)
             c == delete_conversation(j.db, "cosmos", conversation_id, user_id)
         IN  /\ SetDB(c.db)
             /\ last' = Call("delete_conversation", conversation_id, user_id, None,
                             <<BoolRet(m.ret), BoolRet(j.ret), BoolRet(c.ret)>>,
                             <<None, None, None>>)

LockstepLoad ==
    /\ Step
    /\ \E user_id \in UserIds, conversation_id \in ConvIds :
         \E m \in load_conversation(DB, "memory", conversation_id, user_id),
            j \in load_conversation(DB, "json", conversation_id, user_id),
            c \in load_conversation(DB, "cosmos", conversation_id, user_id) :
            /\ SetDB(DB)
            /\ last' = Call("load_conversation", conversation_id, user_id, None,
                            <<"returned", "returned", "returned">>,
                            <<LoadedIds(m), LoadedIds(j), LoadedIds(c)>>)

LockstepList ==
    /\ Step
    /\ \E user_id \in UserIds, filters \in FilterInputs, page_size \in PageSizes :
         \E m \in list_conversations(DB, "memory", user_id, filters, page_size, None),
            j \in list_conversations(DB, "json", user_id, filters, page_size, None),
            c \in list_conversations(DB, "cosmos", user_id, filters, page_size, None) :
            /\ SetDB(DB)
            /\ last' = Call("list_conversations", <<>>, user_id,
                            [filters |-> filters, page_size |-> page_size],
                            <<"returned", "returned", "returned">>,
                            <<ListedIds(m), ListedIds(j), ListedIds(c)>>)

LockstepNext ==
    \/ LockstepSave
    \/ LockstepAppend
    \/ LockstepReset
    \/ LockstepDelete
    \/ LockstepLoad
    \/ LockstepList

LockstepSpec == LockstepInit /\ [][LockstepNext]_vars

\* ======================================================= tools of one agent
\* A Tool: its name and the function it wraps.
Tool(name, function) == [name |-> name, function |-> function]

\* The tools callers register; "chart" returns a ResponseWithAttachments.
ToolInputs == {Tool("Add", "add"), Tool("Add", "add_v2"), Tool("Chart", "chart")}

\* The toolkits an agent is constructed with.
InitialToolkits == {EmptyMap, "Add" :> Tool("Add", "add")}

AddToolResult(toolkit, registered, raised) ==
    [tools |-> toolkit, backend_tools |-> registered, raised |-> raised]

\* add_tool with the name check left out: the tool is stored under its name.
add_tool_overwriting(agent_kind, toolkit, registered, tool) ==
    AddToolResult(Put(toolkit, tool.name, tool), Put(registered, tool.name, tool), FALSE)

\* AbstractAgent.add_tool (the SemanticKernel agent has no add_tool of its
\* own: the kernel's plugin is left as it is) and
\* AbstractLlamaIndexAgent.add_tool (the FunctionTool is added to the agent).
add_tool(agent_kind, toolkit, registered, tool) ==
    IF tool.name \in DOMAIN toolkit THEN AddToolResult(toolkit, registered, TRUE)
    ELSE AddToolResult(Put(toolkit, tool.name, tool),
                       IF agent_kind = "llama_index" THEN Put(registered, tool.name, tool)
                       ELSE registered,
                       FALSE)

\* One entry of _tool_usage: the tool and the arguments the framework called
\* it with (those of the conversation being processed).
ToolUsage(tool, c) == [tool_name |-> tool.name, args |-> c]

\* result.attachments of a tool whose result is a ResponseWithAttachments.
ResultAttachments(tool) ==
    IF tool.function = "chart" THEN <<GraphAttachment("PIE")>> ELSE <<>>

\* The most tool invocations followed in one process call.
MaxToolCalls == 2

\* The longest history followed while tools are in use.
MaxToolHistory == 3

\* The persisted message update_chat_history is given there.
HydrationPool == {PersistedMessage("user", "a", 1)}

\* An agent of either family right after construction with a toolkit.
ToolInit ==
    /\ backend = "memory"
    /\ store = EmptyMap
    /\ files = EmptyMap
    /\ conversation_container = EmptyMap
    /\ messages_container = EmptyMap
    /\ agents = RegisteredAgents
    /\ clock = 0
    /\ last = Call("init", <<>>, <<>>, None, "none", None)
    /\ kind \in AgentBackends
    /\ max_history_length = DefaultMaxHistoryLength
    /\ chat_history = <<>>
    /\ call = AgentCall("init", None, <<>>, None)
    /\ tools \in InitialToolkits
    /\ backend_tools = tools
    /\ tool_usage = <<>>
    /\ attachments = <<>>
    /\ running = [c \in Calls |-> Idle]
    /\ NoSends

ToolStep == UNCHANGED <<service_vars, kind, max_history_length, send_vars>>

AddTool ==
    /\ ToolStep
    /\ \E tool \in ToolInputs :
         LET r == add_tool(kind, tools, backend_tools, tool)
         IN  /\ tools' = r.tools
             /\ backend_tools' = r.backend_tools
             /\ call' = AgentCall("add_tool", tool, None,
                                  IF r.raised THEN "ValueError" ELSE "returned")
    /\ UNCHANGED <<chat_history, tool_usage, attachments, running>>

\* AbstractLlamaIndexAgent.reset_conversation empties the history and both
\* buffers and rebuilds the framework agent from _tools;
\* AbstractSemanticKernelAgent.reset_conversation clears the ChatHistory.
AgentResetConversation ==
    /\ ToolStep
    /\ chat_history' = <<>>
    /\ IF kind = "llama_index"
       THEN /\ tool_usage' = <<>>
            /\ attachments' = <<>>
            /\ backend_tools' = tools
       ELSE UNCHANGED <<tool_usage, attachments, backend_tools>>
    /\ call' = AgentCall("reset_conversation", None, None, None)
    /\ UNCHANGED <<tools, running>>

\* update_chat_history with one persisted message; the SemanticKernel agent
\* also empties both buffers.
HydrateChatHistory ==
    /\ ToolStep
    /\ \E msg \in HydrationPool :
         /\ chat_history' = update_chat_history(kind, chat_history, max_history_length, <<msg>>)
         /\ Len(chat_history') <= MaxToolHistory
         /\ call' = AgentCall("update_chat_history", <<msg>>, None, None)
    /\ IF kind = "semantic_kernel"
       THEN tool_usage' = <<>> /\ attachments' = <<>>
       ELSE UNCHANGED <<tool_usage, attachments>>
    /\ UNCHANGED <<tools, backend_tools, running>>

\* process up to its first await: both buffers are replaced by empty lists,
\* the history is pruned and the user message is added.
ProcessBegin ==
    /\ ToolStep
    /\ \E c \in Calls :
         /\ running[c].pc = "idle"
         /\ Len(chat_history) < MaxToolHistory
         /\ tool_usage' = <<>>
         /\ attachments' = <<>>
         /\ chat_history' = Append(_prune_chat_history(kind, chat_history, max_history_length),
                                   ChatMessageContent("user", "q"))
         /\ running' = [running EXCEPT ![c] = [pc |-> "awaiting", invoked |-> <<>>]]
    /\ UNCHANGED <<tools, backend_tools, call>>

\* The framework, working on call c, invokes one of the tools registered with
\* it: the wrapper appends to the agent's current _tool_usage and extends its
\* current _attachments.
ToolInvocation ==
    /\ ToolStep
    /\ \E c \in Calls, name \in DOMAIN backend_tools :
         /\ running[c].pc = "awaiting"
         /\ Len(running[c].invoked) < MaxToolCalls
         /\ Len(tool_usage) < MaxToolCalls
         /\ tool_usage' = Append(tool_usage, ToolUsage(backend_tools[name], c))
         /\ attachments' = attachments \o ResultAttachments(backend_tools[name])
         /\ running' = [running EXCEPT ![c].invoked =
                                          Append(@, ToolUsage(backend_tools[name], c))]
    /\ UNCHANGED <<tools, backend_tools, chat_history, call>>

\* process from the framework's answer on: the answer is added to the history
\* and the Message is built from the agent's current buffers.
ProcessEnd ==
    /\ ToolStep
    /\ \E c \in Calls, outcome \in {"reply", "fail"} :
         /\ running[c].pc = "awaiting"
         /\ Len(chat_history) <= MaxToolHistory
         /\ chat_history' = IF outcome = "fail" THEN chat_history
                            ELSE Append(chat_history, ChatMessageContent("assistant", "r"))
         /\ call' = AgentCall("process",
                              [message |-> c, outcome |-> outcome,
                               invoked |-> running[c].invoked],
                              None,
                              IF outcome = "reply"
                              THEN ProcessResult(chat_history', FALSE,
                                      [role |-> "assistant", content |-> "r",
                                       metadata |-> [tool_usage |-> tool_usage],
                                       attachments |-> attachments])
                              ELSE IF kind = "llama_index"
                              THEN ProcessResult(chat_history', FALSE,
                                      [role |-> "assistant", content |-> "error",
                                       metadata |-> [error |-> "e"], attachments |-> <<>>])
                              ELSE ProcessResult(chat_history', TRUE, None))
         /\ running' = [running EXCEPT ![c] = Idle]
    /\ UNCHANGED <<tools, backend_tools, tool_usage, attachments>>

ToolNext ==
    \/ AddTool
    \/ AgentResetConversation
    \/ HydrateChatHistory
    \/ ProcessBegin
    \/ ToolInvocation
    \/ ProcessEnd

ToolSpec == ToolInit /\ [][ToolNext]_vars

\* ==================================================== overlapping send_message
\* send_message awaits the persistence strategy and the agent six times; with
\* the CosmosDB strategy every one of those awaits reaches run_in_executor, so
\* another call on the same service runs between any two of them.  Each
\* persistence call is one step.
RaceBackends == {"cosmos"}

RaceConversationId == <<"c">>

RaceUserId == <<"a">>

\* The steps followed of calls that overlap.
MaxRaceSteps == 9

\* A re-save that wrote what the storage holds at that moment instead of the
\* list send_message reloaded earlier.
send_message_resave_fresh(db, b, updated_conversation_data, agent_id, user_id, now) ==
    LET current == CHOOSE d \in load_conversation(db, b, updated_conversation_data.conversation_id, user_id) : TRUE
        bumped == [current EXCEPT !.last_updated_at = isoformat(now)]
        rebuilt == _create_conversation_from_data(bumped, agent_id)
    IN  IF rebuilt.raised THEN Result(db, "TypeError")
        ELSE Result(save_conversation(db, b, rebuilt.conversation, user_id).db, "returned")

\* The end of send_message: the reloaded mapping gets a new last_updated_at,
\* is rebuilt into a Conversation and saved.
send_message_resave(db, b, updated_conversation_data, agent_id, user_id, now) ==
    LET bumped == [updated_conversation_data EXCEPT !.last_updated_at = isoformat(now)]
        rebuilt == _create_conversation_from_data(bumped, agent_id)
    IN  IF rebuilt.raised THEN Result(db, "TypeError")
        ELSE Result(save_conversation(db, b, rebuilt.conversation, user_id).db, "returned")

\* One conversation of a registered agent is stored, nothing is in flight.
RaceInit ==
    /\ backend \in RaceBackends
    /\ LET d == save_conversation(MakeDB(EmptyMap, EmptyMap, EmptyMap, EmptyMap), backend,
                                  Conversation(RaceConversationId, "ag1", "t1", 0, 0, <<>>,
                                               [user_id |-> RaceUserId]),
                                  RaceUserId).db
       IN  /\ store = d.store
           /\ files = d.files
           /\ conversation_container = d.conversation_container
           /\ messages_container = d.messages_container
    /\ agents = RegisteredAgents
    /\ clock = 1
    /\ last = Call("init", <<>>, <<>>, None, "none", None)
    /\ kind = "llama_index"
    /\ max_history_length = DefaultMaxHistoryLength
    /\ chat_history = <<>>
    /\ call = AgentCall("init", None, <<>>, None)
    /\ NoToolActivity
    /\ NoSends

RaceStep ==
    /\ clock < MaxRaceSteps
    /\ clock' = clock + 1
    /\ UNCHANGED <<backend, agents, last, agent_vars, tool_vars>>

Acknowledge(ret, message) == IF ret THEN appended \cup {message.message_id} ELSE appended

\* append_message called by another client of the conversation.
RaceAppendMessage ==
    /\ RaceStep
    /\ \E message \in PoolMessages :
         LET r == append_message(DB, backend, RaceConversationId, RaceUserId, message, clock)
         IN  /\ SetDB(r.db)
             /\ appended' = Acknowledge(r.ret, message)
    /\ UNCHANGED sends

\* send_message up to its first load_conversation (lines 163-166).
SendLoad(s) ==
    /\ RaceStep
    /\ sends[s].pc = "idle"
    /\ \E conversation_data \in load_conversation(DB, backend, RaceConversationId, RaceUserId) :
         sends' = [sends EXCEPT ![s] =
                      IF conversation_data = None THEN [pc |-> "raised"]
                      ELSE [pc |-> "loaded", agent_id |-> conversation_data.agent_id]]
    /\ SetDB(DB)
    /\ UNCHANGED appended

\* The user message is built and appended (lines 167-176).
SendAppendUser(s) ==
    /\ RaceStep
    /\ sends[s].pc = "loaded"
    /\ LET user_message == UserMessage(RaceUserId, "question", clock)
           r == append_message(DB, backend, RaceConversationId, RaceUserId, user_message, clock)
       IN  /\ SetDB(r.db)
           /\ appended' = Acknowledge(r.ret, user_message)
    /\ sends' = [sends EXCEPT ![s].pc = "user_appended"]

\* The agent is looked up and processes the message (lines 177-186).
SendProcess(s) ==
    /\ RaceStep
    /\ sends[s].pc = "user_appended"
    /\ \E outcome \in AgentOutcomes :
         sends' = [sends EXCEPT ![s] =
                      IF sends[s].agent_id \notin agents \/ outcome = "raise"
                      THEN [pc |-> "raised"]
                      ELSE [pc |-> "processed", agent_id |-> sends[s].agent_id,
                            agent_response |-> AgentResponse(outcome, clock)]]
    /\ SetDB(DB)
    /\ UNCHANGED appended

\* The agent's response is appended (line 187).
SendAppendResponse(s) ==
    /\ RaceStep
    /\ sends[s].pc = "processed"
    /\ LET r == append_message(DB, backend, RaceConversationId, RaceUserId,
                               sends[s].agent_response, clock)
       IN  /\ SetDB(r.db)
           /\ appended' = Acknowledge(r.ret, sends[s].agent_response)
    /\ sends' = [sends EXCEPT ![s].pc = "response_appended"]

\* The conversation is loaded again (lines 188-191).
SendReload(s) ==
    /\ RaceStep
    /\ sends[s].pc = "response_appended"
    /\ \E updated_conversation_data \in
             load_conversation(DB, backend, RaceConversationId, RaceUserId) :
         sends' = [sends EXCEPT ![s] =
                      IF updated_conversation_data = None THEN [pc |-> "raised"]
                      ELSE [pc |-> "reloaded", agent_id |-> sends[s].agent_id,
                            updated_conversation_data |-> updated_conversation_data]]
    /\ SetDB(DB)
    /\ UNCHANGED appended

\* What was reloaded is saved and the response returned (lines 192-197).
SendResave(s) ==
    /\ RaceStep
    /\ sends[s].pc = "reloaded"
    /\ LET r == send_message_resave(DB, backend, sends[s].updated_conversation_data,
                                    sends[s].agent_id, RaceUserId, clock)
       IN  /\ SetDB(r.db)
           /\ sends' = [sends EXCEPT ![s] =
                           [pc |-> IF r.ret = "returned" THEN "returned" ELSE "raised"]]
    /\ UNCHANGED appended

RaceNext ==
    \/ RaceAppendMessage
    \/ \E s \in Senders : SendLoad(s)
    \/ \E s \in Senders : SendAppendUser(s)
    \/ \E s \in Senders : SendProcess(s)
    \/ \E s \in Senders : SendAppendResponse(s)
    \/ \E s \in Senders : SendReload(s)
    \/ \E s \in Senders : SendResave(s)

RaceSpec == RaceInit /\ [][RaceNext]_vars

\* ============================================ payloads json.dumps rejects
\* The backends that convert a message before they store it.
PayloadBackends == {"json", "cosmos"}

PayloadMessages == {M1, M3, M4}

PayloadConversationId == <<"c">>

PayloadUserId == <<"a">>

\* The message lists handed to save_conversation: every message has its own
\* message_id.
PayloadLists ==
    {l \in SeqsUpTo(PayloadMessages, MaxMessages) :
        \A i, j \in 1..Len(l) : i # j => l[i].message_id # l[j].message_id}

PayloadInit ==
    /\ backend \in PayloadBackends
    /\ store = EmptyMap
    /\ files = EmptyMap
    /\ conversation_container = EmptyMap
    /\ messages_container = EmptyMap
    /\ agents = RegisteredAgents
    /\ clock = 0
    /\ last = Call("init", <<>>, <<>>, None, "none", None)
    /\ kind = "llama_index"
    /\ max_history_length = DefaultMaxHistoryLength
    /\ chat_history = <<>>
    /\ call = AgentCall("init", None, <<>>, None)
    /\ NoToolActivity
    /\ NoSends

PayloadSave ==
    /\ Step
    /\ \E messages \in PayloadLists :
         LET conversation == Conversation(PayloadConversationId, "ag1", "t1", clock, clock,
                                          messages, [user_id |-> PayloadUserId])
             r == save_conversation(DB, backend, conversation, PayloadUserId)
         IN  /\ SetDB(r.db)
             /\ last' = Call("save_conversation", PayloadConversationId, PayloadUserId,
                             conversation, BoolRet(r.ret), None)

PayloadAppend ==
    /\ Step
    /\ \E message \in PayloadMessages :
         LET r == append_message(DB, backend, PayloadConversationId, PayloadUserId, message,
                                 clock)
         IN  /\ SetDB(r.db)
             /\ last' = Call("append_message", PayloadConversationId, PayloadUserId, message,
                             BoolRet(r.ret), None)

PayloadNext ==
    \/ PayloadSave
    \/ PayloadAppend

PayloadSpec == PayloadInit /\ [][PayloadNext]_vars

\* ============================================= the service with its agent
\* send_message with the agent instance it drives: two conversations of two
\* users name the one registered agent.
SessionConversations ==
    {[conversation_id |-> <<"c">>, user_id |-> <<"a">>],
     [conversation_id |-> <<"b", "_", "c">>, user_id |-> <<"a", "_", "b">>]}

\* The calls followed.
MaxSessionSteps == 3

RECURSIVE SavedAll(_, _, _)
SavedAll(db, b, conversations) ==
    IF conversations = {} THEN db
    ELSE LET k == CHOOSE x \in conversations : TRUE
         IN  SavedAll(save_conversation(db, b,
                                        Conversation(k.conversation_id, "ag1", "t1", 0, 0, <<>>,
                                                     [user_id |-> k.user_id]),
                                        k.user_id).db,
                      b, conversations \ {k})

\* Both conversations are stored without messages, the agent is new.
SessionInit ==
    /\ backend \in Backends
    /\ LET d == SavedAll(MakeDB(EmptyMap, EmptyMap, EmptyMap, EmptyMap), backend,
                         SessionConversations)
       IN  /\ store = d.store
           /\ files = d.files
           /\ conversation_container = d.conversation_container
           /\ messages_container = d.messages_container
    /\ agents = RegisteredAgents
    /\ clock = 0
    /\ last = Call("init", <<>>, <<>>, None, "none", None)
    /\ kind \in AgentBackends
    /\ max_history_length = DefaultMaxHistoryLength
    /\ chat_history = <<>>
    /\ call = AgentCall("init", None, <<>>, None)
    /\ NoToolActivity
    /\ NoSends

SessionStep ==
    /\ clock < MaxSessionSteps
    /\ clock' = clock + 1
    /\ UNCHANGED <<backend, agents, kind, max_history_length, tool_vars, send_vars>>

\* conversation_data["messages"] when update_chat_history is called.  The
\* in-memory load_conversation returns the stored mapping itself and
\* append_message appends to its list in place, so the list has grown by the
\* user message; the other backends return a mapping of their own.
HandedMessages(b, conversation_data, user_message) ==
    IF b = "memory" THEN Append(conversation_data.messages, model_dump(user_message))
    ELSE conversation_data.messages

\* The stored records as update_chat_history reads them; created_at grows
\* with the position, every message being created when it is appended.
AsPersisted(messages) ==
    [i \in 1..Len(messages) |-> PersistedMessage(messages[i].role, messages[i].content, i)]

\* The history the wrapped framework is invoked with: process has pruned it
\* and added the user message.
Asked(k, history, max_length, message) ==
    Append(_prune_chat_history(k, history, max_length), ChatMessageContent("user", message))

\* The Message process returned, as send_message appends it.
ResponseMessage(message, now) ==
    Message(uuid4(now, 2), message.role, message.content, <<>>, message.metadata, <<>>)

RoleContentOf(messages) ==
    [i \in 1..Len(messages) |-> [role |-> messages[i].role, content |-> messages[i].content]]

\* The message lists load_conversation can return for a stored conversation.
StoredLists(db, b, conversation_id, user_id) ==
    {RoleContentOf(data.messages) :
        data \in load_conversation(db, b, conversation_id, user_id) \ {None}}

\* ConversationService.send_message on a stored conversation, with what the
\* agent does in it.  The user asks a new question every time.
SessionSend ==
    /\ SessionStep
    /\ \E k \in SessionConversations, outcome \in OutcomesOf(kind) :
         \E conversation_data \in
               load_conversation(DB, backend, k.conversation_id, k.user_id) \ {None} :
            LET message_content == "q" \o ToString(clock)
                user_message == UserMessage(k.user_id, message_content, clock)
                d1 == append_message(DB, backend, k.conversation_id, k.user_id, user_message,
                                     clock).db
                messages == HandedMessages(backend, conversation_data, user_message)
                updated == update_chat_history(kind, chat_history, max_history_length,
                                               AsPersisted(messages))
                r == process(kind, updated, max_history_length, message_content, outcome)
                d2 == IF r.raised THEN d1
                      ELSE append_message(d1, backend, k.conversation_id, k.user_id,
                                          ResponseMessage(r.message, clock), clock).db
                arg == [conversation_id |-> k.conversation_id, user_id |-> k.user_id,
                        message |-> message_content, outcome |-> outcome,
                        handed |-> RoleContentOf(messages),
                        stored_before |-> StoredLists(DB, backend, k.conversation_id, k.user_id),
                        stored |-> StoredLists(d1, backend, k.conversation_id, k.user_id)]
            IN  /\ conversation_data.agent_id \in agents
                /\ chat_history' = r.chat_history
                /\ call' = AgentCall("process", arg,
                                     Asked(kind, updated, max_history_length, message_content), r)
                /\ IF r.raised
                   THEN /\ SetDB(d1)
                        /\ last' = Call("send_message", k.conversation_id, k.user_id,
                                        message_content, "AgentError", None)
                   ELSE \E updated_conversation_data \in
                              load_conversation(d2, backend, k.conversation_id, k.user_id)
                                 \ {None} :
                           LET s == send_message_resave(d2, backend, updated_conversation_data,
                                                        conversation_data.agent_id, k.user_id,
                                                        clock)
                           IN  /\ SetDB(s.db)
                               /\ last' = Call("send_message", k.conversation_id, k.user_id,
                                               message_content, s.ret, r.message)

\* ConversationService.reset_conversation: the persistence strategy resets
\* the conversation, the agent is not told.
SessionReset ==
    /\ SessionStep
    /\ \E k \in SessionConversations :
         LET r == reset_conversation(DB, backend, k.conversation_id, k.user_id, clock)
         IN  /\ SetDB(r.db)
             /\ last' = Call("reset_conversation", k.conversation_id, k.user_id, None,
                             BoolRet(r.ret), None)
    /\ UNCHANGED <<chat_history, call>>

SessionNext ==
    \/ SessionSend
    \/ SessionReset

SessionSpec == SessionInit /\ [][SessionNext]_vars

\* ================================================= what the claims talk about
\* The conversation documents the backend holds.
StoredDocs ==
    CASE backend = "memory" -> UNION {Range(store[u]) : u \in DOMAIN store}
      [] backend = "json" -> {files[p] : p \in DOMAIN files} \ {Corrupt}
      [] backend = "cosmos" -> {conversation_container[k] : k \in DOMAIN conversation_container}

\* A conversation exists for (conversation_id, user_id): a stored document
\* carries that conversation_id and that user_id.
Exists(conversation_id, user_id) ==
    \E d \in StoredDocs : d.conversation_id = conversation_id /\ d.user_id = user_id

\* What load_conversation may return in the current state.
Loaded(conversation_id, user_id) == load_conversation(DB, backend, conversation_id, user_id)

\* What load_conversation may return once the step is taken.
LoadedAfter(conversation_id, user_id) == load_conversation(DB', backend', conversation_id, user_id)

Listed(user_id, filters, page_size, continuation_token) ==
    list_conversations(DB, backend, user_id, filters, page_size, continuation_token)

IdContent(m) == [message_id |-> m.message_id, content |-> m.content]

TypeOf(att) == att.type

\* A message as the claims compare it: every field, attachments by their tag.
FullView(m) ==
    [message_id |-> m.message_id, role |-> m.role, content |-> m.content,
     citations |-> m.citations, metadata |-> m.metadata,
     attachments |-> SeqMap(TypeOf, StoredAttachments(m))]

MutatingCalls == {"save_conversation", "append_message", "reset_conversation",
                  "delete_conversation"}

\* ------------------------------------------------------------------------ C1
\* C1: for two distinct users A and B and a conversation_id that A owns, no
\* save_conversation, append_message, reset_conversation or delete_conversation
\* call made with user B, whatever it returns, changes what
\* load_conversation(conversation_id, A) returns, in every backend.
C1_MutationIsolation ==
    [][\A A \in UserIds, conversation_id \in ConvIds :
          (/\ Exists(conversation_id, A)
           /\ last'.op \in MutatingCalls
           /\ last'.user_id # A)
          => LoadedAfter(conversation_id, A) = Loaded(conversation_id, A)]_vars

\* ------------------------------------------------------------------------ C2
\* C2: when a conversation_id is stored under user A only, and B is another
\* user, load_conversation(conversation_id, B) returns absent, in every backend
\* and for every choice of the id strings.
C2_ReadIsolation ==
    \A A \in UserIds, B \in UserIds, conversation_id \in ConvIds :
        (A # B /\ Exists(conversation_id, A) /\ ~Exists(conversation_id, B))
        => Loaded(conversation_id, B) = {None}

\* ------------------------------------------------------------------------ C3
\* C3: list_conversations(user_id, filters, ...) returns only conversations
\* owned by exactly that user_id, whatever the filters and whatever other user
\* ids exist in the store, in every backend.
C3Filters == FilterInputs \cup {[user_id |-> u] : u \in UserIds}

C3_ListOnlyOwn ==
    \A user_id \in UserIds, filters \in C3Filters, page_size \in {1, 2},
       continuation_token \in {None, IndexToken(1)} :
        \A result \in Listed(user_id, filters, page_size, continuation_token) :
            \A i \in 1..Len(result.items) : result.items[i].user_id = user_id

\* ------------------------------------------------------------------------ C4
\* C4: save_conversation is a full upsert with a save/load round trip: after
\* save_conversation(C, u) returned true, whatever was stored under that key
\* before, load_conversation(C.conversation_id, u) returns exactly C's messages
\* (same ids, content, order and count, none left over, also when C has no
\* messages) and C's title and metadata; saving the same C again returns true
\* and does not change the loaded result.
C4_SaveLoadRoundTrip ==
    [][(last'.op = "save_conversation")
       => /\ last'.ret = "true"
             => \A data \in LoadedAfter(last'.conversation_id, last'.user_id) :
                   /\ data # None
                   /\ SeqMap(IdContent, data.messages) = SeqMap(IdContent, last'.arg.messages)
                   /\ data.title = last'.arg.title
                   /\ data.metadata = last'.arg.metadata
          /\ (/\ last.op = "save_conversation"
              /\ last.ret = "true"
              /\ last'.arg = last.arg
              /\ last'.user_id = last.user_id)
             => /\ last'.ret = "true"
                /\ LoadedAfter(last'.conversation_id, last'.user_id)
                      = Loaded(last'.conversation_id, last'.user_id)]_vars

\* ------------------------------------------------------------------------ C5
\* The message ids a loaded conversation holds.
MessageIds(data) == {data.messages[i].message_id : i \in 1..Len(data.messages)}

\* C5: an append_message call that returns true on an existing conversation,
\* with a message whose id the conversation does not hold yet, makes
\* load_conversation return the previously stored messages followed by the
\* appended one (so n sequential appends come back in call order); in the
\* CosmosDB backend the appended record gets a sequence strictly greater than
\* that of every record already stored for the conversation.
C5_AppendOrdering ==
    [][(/\ last'.op = "append_message"
        /\ last'.ret = "true"
        /\ Exists(last'.conversation_id, last'.user_id)
        /\ \A data \in Loaded(last'.conversation_id, last'.user_id) :
              data # None /\ last'.arg.message_id \notin MessageIds(data))
       => /\ \A after \in LoadedAfter(last'.conversation_id, last'.user_id) :
                \E before \in Loaded(last'.conversation_id, last'.user_id) :
                   /\ after # None
                   /\ SeqMap(IdContent, after.messages)
                         = Append(SeqMap(IdContent, before.messages), IdContent(last'.arg))
          /\ backend = "cosmos"
             => \A k \in DOMAIN messages_container :
                   k[1] = last'.conversation_id
                   => messages_container'[<<last'.conversation_id,
                                            MessageItemId(last'.conversation_id,
                                                          last'.arg.message_id)>>].sequence
                         > messages_container[k].sequence]_vars

\* ------------------------------------------------------------------------ C6
\* C6: append_message(conversation_id, user_id, message) returns false when no
\* conversation exists for that (conversation_id, user_id) pair, and then
\* stores nothing: no conversation is created and no message record is
\* written, in every backend.
C6_AppendToAbsent ==
    [][(/\ last'.op = "append_message"
        /\ ~Exists(last'.conversation_id, last'.user_id))
       => /\ last'.ret = "false"
          /\ DB' = DB]_vars

\* ------------------------------------------------------------------------ C7
\* C7: for an existing conversation (id, u) whose agent is registered, after
\* send_message(id, u, content) returned a response R, load_conversation(id, u)
\* yields the message sequence stored before the call, unchanged (ids, roles,
\* content, citations, metadata, attachments, order), followed by exactly one
\* new user-role message with that content and then R.
C7_TurnEffect ==
    [][(/\ last'.op = "send_message"
        /\ last'.ret = "returned"
        /\ Exists(last'.conversation_id, last'.user_id))
       => \A after \in LoadedAfter(last'.conversation_id, last'.user_id) :
             \E before \in Loaded(last'.conversation_id, last'.user_id) :
                /\ after # None
                /\ before # None
                /\ last'.arg.user_message.role = "user"
                /\ last'.arg.user_message.content = "question"
                /\ SeqMap(FullView, after.messages)
                      = SeqMap(FullView, before.messages)
                           \o <<FullView(last'.arg.user_message), FullView(last'.result)>>]_vars

\* ------------------------------------------------------------------------ C8
SendFailuresAfterLoad == {"ValueError: agent not available", "AgentError"}

\* C8: send_message raises and stores nothing when the conversation is absent
\* for that user; when it fails after the conversation was loaded (its agent
\* is not registered, or agent processing fails), the new user message is
\* already persisted as the last message of the conversation and no agent
\* response is stored.
C8_TurnFailure ==
    [][(last'.op = "send_message")
       => /\ ~Exists(last'.conversation_id, last'.user_id)
             => /\ last'.ret = "ValueError: conversation not found"
                /\ DB' = DB
          /\ (Exists(last'.conversation_id, last'.user_id)
              /\ last'.ret \in SendFailuresAfterLoad)
             => \A after \in LoadedAfter(last'.conversation_id, last'.user_id) :
                   \E before \in Loaded(last'.conversation_id, last'.user_id) :
                      /\ after # None
                      /\ before # None
                      /\ Len(after.messages) = Len(before.messages) + 1
                      /\ FullView(after.messages[Len(after.messages)])
                            = FullView(last'.arg.user_message)]_vars

\* ------------------------------------------------------------------------ C9
\* C9: reset_conversation(id, u) on an existing conversation returns true and
\* afterwards load_conversation(id, u) has an empty message list while title
\* and created_at are unchanged and last_updated_at is not earlier than
\* before; on a conversation absent for (id, u) it returns false; in every
\* backend.
C9_Reset ==
    [][(last'.op = "reset_conversation")
       => IF Exists(last'.conversation_id, last'.user_id)
          THEN /\ last'.ret = "true"
               /\ \A after \in LoadedAfter(last'.conversation_id, last'.user_id) :
                     \E before \in Loaded(last'.conversation_id, last'.user_id) :
                        /\ after # None
                        /\ before # None
                        /\ after.messages = <<>>
                        /\ after.title = before.title
                        /\ after.created_at = before.created_at
                        /\ fromisoformat(after.last_updated_at)
                              >= fromisoformat(before.last_updated_at)
          ELSE last'.ret = "false"]_vars

\* ----------------------------------------------------------------------- C10
\* The conversation ids list_conversations(user_id) returns, asked for in one
\* page, once the step is taken.
ListedIdsAfter(user_id) ==
    UNION {{result.items[i].conversation_id : i \in 1..Len(result.items)} :
              result \in list_conversations(DB', backend', user_id, EmptyMap,
                                            Cardinality(UserIds \X ConvIds), None)}

\* C10: delete_conversation(id, u) returns true exactly when a conversation
\* exists for (id, u); after a true return load_conversation(id, u) is absent,
\* list_conversations(u) no longer contains id, and no message of the deleted
\* conversation reappears when a conversation with the same id is saved again;
\* when it returns false the store is unchanged.
C10_Delete ==
    [][/\ (last'.op = "delete_conversation")
          => /\ (last'.ret = "true") <=> Exists(last'.conversation_id, last'.user_id)
             /\ last'.ret = "true"
                => /\ LoadedAfter(last'.conversation_id, last'.user_id) = {None}
                   /\ last'.conversation_id \notin ListedIdsAfter(last'.user_id)
             /\ last'.ret = "false" => DB' = DB
       /\ (/\ last.op = "delete_conversation"
           /\ last.ret = "true"
           /\ last'.op = "save_conversation"
           /\ last'.conversation_id = last.conversation_id
           /\ last'.user_id = last.user_id)
          => \A data \in LoadedAfter(last'.conversation_id, last'.user_id) :
                /\ data # None
                /\ MessageIds(data) \subseteq Range(SeqMap(LAMBDA m : m.message_id,
                                                            last'.arg.messages))]_vars

\* ----------------------------------------------------------------------- C11
CreateCalls == {"create_conversation", "create_conversation_by_agent_id"}

\* The conversation ids any backend holds a document or a message record for.
KnownConversationIds ==
    {d.conversation_id : d \in StoredDocs}
        \cup {messages_container[k].conversation_id : k \in DOMAIN messages_container}

\* C11: a create operation that succeeds returns a conversation with a fresh
\* conversation_id, no messages, created_at = last_updated_at, metadata.user_id
\* = user_id and, when no title was given, the title "Conversation with <agent
\* name>", and load_conversation then finds it for user_id with its agent
\* registered; when the save reports failure the operation raises RuntimeError
\* and the conversation can be neither loaded nor listed.
C11_CreateConversation ==
    [][(last'.op \in CreateCalls)
       => /\ last'.ret = "returned"
             => /\ last'.arg.saved = "true"
                /\ last'.result.conversation_id = last'.conversation_id
                /\ last'.conversation_id \notin KnownConversationIds
                /\ last'.result.messages = <<>>
                /\ last'.result.created_at = last'.result.last_updated_at
                /\ last'.result.created_at = clock
                /\ last'.result.metadata.user_id = last'.user_id
                /\ last'.arg.title = None
                      => last'.result.title
                            = "Conversation with " \o AgentName(last'.arg.agent_id)
                /\ last'.arg.title # None => last'.result.title = last'.arg.title.some
                /\ last'.result.agent \in agents'
                /\ \A data \in LoadedAfter(last'.conversation_id, last'.user_id) :
                      /\ data # None
                      /\ data.conversation_id = last'.conversation_id
                      /\ data.user_id = last'.user_id
                      /\ data.agent_id = last'.arg.agent_id
                      /\ data.title = last'.result.title
                      /\ data.messages = <<>>
                      /\ data.created_at = data.last_updated_at
          /\ last'.arg.saved = "false"
             => /\ last'.ret = "RuntimeError"
                /\ LoadedAfter(last'.conversation_id, last'.user_id) = {None}
                /\ last'.conversation_id \notin ListedIdsAfter(last'.user_id)]_vars

\* A create operation raised RuntimeError after the JSON backend had already
\* truncated the new conversation's file.
C11_Witness ==
    /\ last.op \in CreateCalls
    /\ last.ret = "RuntimeError"
    /\ _get_filepath(last.conversation_id, last.user_id) \in DOMAIN files
    /\ files[_get_filepath(last.conversation_id, last.user_id)] = Corrupt

\* ----------------------------------------------------------------------- C12
\* The page sizes a caller pages with.
WalkPageSizes == {1, 2}

\* The conversation documents stored for user_id.
OwnDocs(user_id) == {d \in StoredDocs : d.user_id = user_id}

\* ceil(n / k)
CeilDiv(n, k) == (n + k - 1) \div k

\* The runs of a caller that calls list_conversations without a token and then
\* with each returned continuation token until the returned token is None
\* (at most fuel further calls): the sequences of results it can get.
RECURSIVE PageWalks(_, _, _, _, _, _, _)
PageWalks(db, b, user_id, filters, page_size, continuation_token, fuel) ==
    UNION {IF r.continuation_token = None \/ fuel = 0 THEN {<<r>>}
           ELSE {<<r>> \o w : w \in PageWalks(db, b, user_id, filters, page_size,
                                                r.continuation_token, fuel - 1)} :
              r \in list_conversations(db, b, user_id, filters, page_size, continuation_token)}

\* The items of all pages of a walk, in the order returned.
RECURSIVE AllItems(_)
AllItems(w) == IF w = <<>> THEN <<>> ELSE Head(w).items \o AllItems(Tail(w))

ConversationIdOf(item) == item.conversation_id

NoDuplicates(s) == \A i, j \in 1..Len(s) : s[i] = s[j] => i = j

\* C12: for a user with n conversations, a page size k >= 1 with n > k and an
\* unchanged store, paging from no token until the returned token is None
\* takes ceil(n/k) calls, every page has at most k items, every
\* conversation_id is on exactly one page, each token resumes right after the
\* last item returned (the pages in sequence are a one-page listing of all n),
\* and the token is None exactly on the last page, in every backend.
C12_Pagination ==
    \A user_id \in UserIds, k \in WalkPageSizes :
        LET n == Cardinality(OwnDocs(user_id))
        IN  n > k
            => \A w \in PageWalks(DB, backend, user_id, EmptyMap, k, None, n + 1) :
                  /\ Len(w) = CeilDiv(n, k)
                  /\ \A i \in 1..Len(w) :
                        /\ Len(w[i].items) <= k
                        /\ (w[i].continuation_token = None) <=> (i = Len(w))
                  /\ NoDuplicates(SeqMap(ConversationIdOf, AllItems(w)))
                  /\ Range(SeqMap(ConversationIdOf, AllItems(w)))
                        = {d.conversation_id : d \in OwnDocs(user_id)}
                  /\ \E whole \in Listed(user_id, EmptyMap, n, None) :
                        SeqMap(ConversationIdOf, AllItems(w))
                           = SeqMap(ConversationIdOf, whole.items)

\* ----------------------------------------------------------------------- C13
\* The conversations of user_id that match all filters.
Matching(user_id, filters) == {d \in OwnDocs(user_id) : MatchesFilters(d, filters)}

\* C13: on every page list_conversations(user_id, filters, page_size, token)
\* returns, total_count is the number of the user's conversations that match
\* all filters, whatever page_size and token are, and the items of all pages
\* together are exactly those conversations.
C13_TotalCount ==
    \A user_id \in UserIds, filters \in FilterInputs, page_size \in WalkPageSizes :
        /\ \A continuation_token \in {None, IndexToken(1)} :
              \A result \in Listed(user_id, filters, page_size, continuation_token) :
                 result.total_count = Cardinality(Matching(user_id, filters))
        /\ \A w \in PageWalks(DB, backend, user_id, filters, page_size, None,
                               Cardinality(StoredDocs) + 2) :
              /\ NoDuplicates(SeqMap(ConversationIdOf, AllItems(w)))
              /\ Range(SeqMap(ConversationIdOf, AllItems(w)))
                    = {d.conversation_id : d \in Matching(user_id, filters)}

\* ----------------------------------------------------------------------- C14
\* C14: the conversations list_conversations returns are ordered by
\* last_updated_at descending: within a page and across consecutive pages no
\* item has a later last_updated_at than an item returned before it, in every
\* backend.
C14_ListOrder ==
    \A user_id \in UserIds, page_size \in WalkPageSizes :
        \A w \in PageWalks(DB, backend, user_id, EmptyMap, page_size, None,
                            Cardinality(StoredDocs) + 2) :
           \A i, j \in 1..Len(AllItems(w)) :
              i < j => fromisoformat(AllItems(w)[i].last_updated_at)
                          >= fromisoformat(AllItems(w)[j].last_updated_at)

\* ----------------------------------------------------------------------- C15
\* C15: every item list_conversations returns is conversation metadata only:
\* it has no messages list, however many messages the conversation holds, in
\* every backend.
C15_MetadataOnly ==
    \A user_id \in UserIds, filters \in FilterInputs, page_size \in WalkPageSizes,
       continuation_token \in {None, IndexToken(1)} :
        \A result \in Listed(user_id, filters, page_size, continuation_token) :
           \A i \in 1..Len(result.items) : "messages" \notin DOMAIN result.items[i]

\* ----------------------------------------------------------------------- C16
\* The history the agent holds, pruned once more.
Pruned(history) == _prune_chat_history(kind, history, max_history_length)

CountSystem(history) == Cardinality({i \in 1..Len(history) : history[i].role = "system"})

\* C16: for every history H with len(H) >= max_history_length, the pruned
\* history has at most max(max_history_length, number of system messages in H)
\* messages, in both agent backends.
C16_PrunerBound ==
    /\ Len(chat_history) >= max_history_length
          => Len(Pruned(chat_history)) <= Max(max_history_length, CountSystem(chat_history))
    /\ call.op = "_prune_chat_history" /\ Len(call.before) >= max_history_length
          => Len(chat_history) <= Max(max_history_length, CountSystem(call.before))

\* The pruner cut a history that held a system message and was longer than
\* the bound down to the bound.
C16_Witness ==
    /\ call.op = "_prune_chat_history"
    /\ Len(call.before) > max_history_length
    /\ CountSystem(call.before) >= 1
    /\ Len(chat_history) < Len(call.before)
    /\ Len(chat_history) = Max(max_history_length, CountSystem(call.before))

\* ----------------------------------------------------------------------- C17
\* C17: pruning is idempotent: for every history H and bound, pruning the
\* result of a pruning again yields the same history, the same messages in
\* the same order.
C17_PruneIdempotent ==
    /\ Pruned(Pruned(chat_history)) = Pruned(chat_history)
    /\ call.op = "_prune_chat_history" => Pruned(chat_history) = chat_history

\* The pruner removed messages from a history, and the result still reaches
\* the bound, so that a second pruning rebuilds it.
C17_Witness ==
    /\ call.op = "_prune_chat_history"
    /\ chat_history # call.before
    /\ chat_history # <<>>
    /\ Len(chat_history) >= max_history_length
    /\ Pruned(chat_history) = chat_history

\* ----------------------------------------------------------------------- C18
\* The last n elements of seq, all of them when it has fewer.
LastN(seq, n) == SubSeq(seq, Len(seq) - Min(n, Len(seq)) + 1, Len(seq))

SystemOf(history) == SelectSeq(history, LAMBDA m : m.role = "system")

OthersOf(history) == SelectSeq(history, LAMBDA m : m.role # "system")

\* A message as both backends hold it: its role and its content.
RoleContent(m) == [role |-> m.role, content |-> m.content]

\* The stated result of pruning history under bound.
StatedPruning(history, bound) ==
    IF Len(history) < bound THEN history
    ELSE SystemOf(history) \o LastN(OthersOf(history), Max(0, bound - CountSystem(history)))

\* C18: prune(H) is H itself when len(H) < bound; otherwise it is all system
\* messages of H in their order followed by exactly the last
\* max(0, bound - count_system(H)) non-system messages of H in their order,
\* whatever the roles of those messages; both agent backends compute this.
C18_PrunerResult ==
    /\ SeqMap(RoleContent, Pruned(chat_history))
          = SeqMap(RoleContent, StatedPruning(chat_history, max_history_length))
    /\ call.op = "_prune_chat_history"
          => SeqMap(RoleContent, chat_history)
                = SeqMap(RoleContent, StatedPruning(call.before, max_history_length))

\* ----------------------------------------------------------------------- C19
\* C19: after update_chat_history(messages) returned, whatever the history
\* was before and whatever the persisted messages are, the agent's history
\* has at most max(max_history_length, number of system messages in it)
\* messages, in every agent backend.
C19_UpdateBound ==
    call.op = "update_chat_history"
       => Len(chat_history) <= Max(max_history_length, CountSystem(chat_history))

\* ----------------------------------------------------------------------- C20
\* C20: in every agent backend, when the wrapped framework call fails during
\* process(message), process does not raise: it returns a Message whose
\* content explains the failure and whose metadata has an error field (so the
\* send_message turn still has a response message to append).
C20_FailSoft ==
    call.op = "process" /\ call.arg.outcome = "fail"
       => /\ ~call.result.raised
          /\ call.result.message # None
          /\ "error" \in DOMAIN call.result.message.metadata
          /\ call.result.message.content # ""

\* ----------------------------------------------------------------------- C21
\* C21: after reset_conversation() on an agent, whatever process and
\* update_chat_history calls came before, the agent's chat history, its
\* tool-usage log and its attachment buffer are all empty, as for a newly
\* constructed agent, in every agent backend.
C21_AgentReset ==
    [][AgentResetConversation
          => chat_history' = <<>> /\ tool_usage' = <<>> /\ attachments' = <<>>]_vars

\* ----------------------------------------------------------------------- C22
\* C22: add_tool(tool) on an agent whose toolkit already has a tool named
\* tool.name fails with the naming-conflict error and leaves the toolkit as
\* it was: the name still maps to the tool registered first and no entry is
\* added or removed.
C22_AddToolConflict ==
    [][AddTool /\ call'.arg.name \in DOMAIN tools
          => /\ call'.result = "ValueError"
             /\ tools' = tools
             /\ tools'[call'.arg.name] = tools[call'.arg.name]]_vars

\* add_tool was refused for a tool that differs from the one registered under
\* its name, and the first one is still there.
C22_Witness ==
    /\ call.op = "add_tool"
    /\ call.result = "ValueError"
    /\ call.arg.name \in DOMAIN tools
    /\ tools[call.arg.name] # call.arg

\* ----------------------------------------------------------------------- C23
\* C23: the tool_usage list in the metadata of the Message a process call
\* returns holds exactly the tool invocations made for that call, in
\* invocation order: none left from an earlier process call, none from a
\* process call for another conversation that overlaps it on the shared agent.
C23_ToolUsagePerCall ==
    [][ProcessEnd /\ call'.arg.outcome = "reply"
          => call'.result.message.metadata.tool_usage = call'.arg.invoked]_vars

\* ----------------------------------------------------------------------- C24
TimedCalls == {"save_conversation", "append_message", "reset_conversation", "send_message"}

\* C24: for every stored conversation, across save_conversation,
\* append_message, reset_conversation and send_message calls on it, the stored
\* last_updated_at never decreases, and every call that changes the
\* conversation sets it to the time of the call.
C24_LastUpdatedMonotonic ==
    [][last'.op \in TimedCalls
       => \A user_id \in UserIds, conversation_id \in ConvIds :
             \A before \in Loaded(conversation_id, user_id),
                after \in LoadedAfter(conversation_id, user_id) :
                (before # None /\ after # None)
                   => /\ fromisoformat(after.last_updated_at)
                            >= fromisoformat(before.last_updated_at)
                      /\ after \notin Loaded(conversation_id, user_id)
                            => fromisoformat(after.last_updated_at) = clock]_vars

\* ----------------------------------------------------------------------- C25
\* The message ids of a loaded conversation, in order.
MessageIdSeq(data) == [i \in 1..Len(data.messages) |-> data.messages[i].message_id]

\* C25: after any sequence of save_conversation, append_message and
\* send_message calls, no conversation load_conversation returns holds two
\* messages with the same message_id, in every backend.
C25_UniqueMessageIds ==
    \A user_id \in UserIds, conversation_id \in ConvIds :
       \A data \in Loaded(conversation_id, user_id) :
          data # None => NoDuplicates(MessageIdSeq(data))

\* ----------------------------------------------------------------------- C26
\* C26: save_conversation returns false, without raising, whenever a storage
\* write of the conversation fails; it returns true only if the conversation
\* metadata and every one of its messages were written.
C26_SaveReportsFailure ==
    [][last'.op = "save_conversation"
       => /\ last'.ret \in {"true", "false"}
          /\ last'.result.fault # "none" => last'.ret = "false"
          /\ last'.ret = "true"
                => \A after \in LoadedAfter(last'.conversation_id, last'.user_id) :
                      /\ after # None
                      /\ after.title = last'.arg.title
                      /\ \A i \in 1..Len(last'.arg.messages) :
                            last'.arg.messages[i].message_id \in MessageIds(after)]_vars

\* ----------------------------------------------------------------------- C27
\* C27: the backends are interchangeable: the same sequence of
\* save_conversation, append_message, reset_conversation, delete_conversation,
\* load_conversation and list_conversations calls made on the in-memory, the
\* JSON and the CosmosDB backend, each starting empty, gives at every step the
\* same true/false/absent results, the same loaded message id sequences and
\* the same listed conversation ids.
C27_BackendsInterchangeable ==
    /\ last.ret[1] = last.ret[2] /\ last.ret[2] = last.ret[3]
    /\ last.result[1] = last.result[2] /\ last.result[2] = last.result[3]

\* ----------------------------------------------------------------------- C28
\* The stored documents of (conversation_id, user_id).
DocsOf(conversation_id, user_id) ==
    {d \in StoredDocs : d.conversation_id = conversation_id /\ d.user_id = user_id}

\* C28: ConversationService.load_conversation(id, user) returns absent,
\* without raising and without changing the store, when no conversation is
\* stored for (id, user) and when the stored conversation's agent_id is not in
\* the service's agent registry; otherwise it returns the conversation, bound
\* to the registered agent.
C28_ServiceLoad ==
    [][last'.op = "service_load_conversation"
       => /\ DB' = DB
          /\ agents' = agents
          /\ IF \A d \in DocsOf(last'.conversation_id, last'.user_id) : d.agent_id \notin agents
             THEN last'.ret = "none"
             ELSE /\ last'.ret = "found"
                  /\ last'.result.conversation_id = last'.conversation_id
                  /\ last'.result.agent \in agents
                  /\ \E d \in DocsOf(last'.conversation_id, last'.user_id) :
                        last'.result.agent = d.agent_id]_vars

\* ----------------------------------------------------------------------- C30
\* C30: after any sequence of successful add_tool calls and reset_conversation
\* calls, the tool names the wrapped framework can invoke during process are
\* the keys of agent.tools, in every agent backend.
C30_ToolsInvocable == DOMAIN backend_tools = DOMAIN tools

\* --------------------------------------------------------------------- C29
\* The calls on the conversation have all finished.
SendsFinished == \A s \in Senders : sends[s].pc \in {"idle", "returned", "raised"}

\* C29: send_message's load, append, reload and re-save are not atomic: the
\* re-save writes the message list that was reloaded, whatever was appended to
\* the conversation since the reload, so that the stored conversation holds
\* exactly the reloaded messages when send_message returns.
C29_ResaveWritesReloaded ==
    [][\A s \in Senders :
          (sends[s].pc = "reloaded" /\ sends'[s].pc = "returned")
          => \A data \in LoadedAfter(RaceConversationId, RaceUserId) :
                /\ data # None
                /\ MessageIdSeq(data) = MessageIdSeq(sends[s].updated_conversation_data)]_vars

\* A send_message has returned, no call is in flight any more, and a message
\* whose append_message returned true is in no load of the conversation.
C29_Witness ==
    /\ SendsFinished
    /\ \E s \in Senders : sends[s].pc = "returned"
    /\ \E id \in appended :
          \A data \in Loaded(RaceConversationId, RaceUserId) :
             /\ data # None
             /\ \A i \in 1..Len(data.messages) : data.messages[i].message_id # id

\* ----------------------------------------------------------------------- C31
\* The entries of the history that update_chat_history put there: the
\* SemanticKernel agent clears the chat first, the LlamaIndex agent appends.
AddedEntries ==
    IF kind = "semantic_kernel" THEN chat_history
    ELSE SubSeq(chat_history, Len(chat_history) - Len(call.arg) + 1, Len(chat_history))

\* The ways to pick k of the first n positions, each once.
Picks(n, k) == {p \in [1..k -> 1..n] : \A i, j \in 1..k : i # j => p[i] # p[j]}

\* C31: after update_chat_history(messages), the agent's history lists the
\* retained messages in non-decreasing created_at order whatever the order of
\* the input list; when the created_at values cannot be compared, the
\* retained messages keep their input order; in every agent backend.
C31_UpdateOrder ==
    call.op = "update_chat_history"
       => \E p \in Picks(Len(call.arg), Len(AddedEntries)) :
             /\ \A i \in DOMAIN p : AddedEntries[i].content = call.arg[p[i]].content
             /\ IF \A i, j \in DOMAIN p : Comparable(call.arg[p[i]], call.arg[p[j]])
                THEN \A i, j \in DOMAIN p :
                        i < j => call.arg[p[i]].created_at <= call.arg[p[j]].created_at
                ELSE \A i, j \in DOMAIN p : i < j => p[i] < p[j]

\* ----------------------------------------------------------------------- C32
\* The stored record carries the error of a failed conversion.
CarriesError(record) ==
    \/ "error" \in DOMAIN record
    \/ "metadata" \in DOMAIN record /\ "error" \in DOMAIN record.metadata

\* The loaded record at position i is the one of message, with the error when
\* the payload of message cannot be converted.
StoredFor(data, i, message) ==
    /\ i \in 1..Len(data.messages)
    /\ data.messages[i].message_id = message.message_id
    /\ ~Dumpable(message.metadata) => CarriesError(data.messages[i])

\* C32: when a message's payload cannot be converted to JSON-compatible
\* values, save_conversation and append_message still return true and store
\* exactly one record for that message at its position, carrying the error,
\* so that as many messages are stored as were handed to the backend.
C32_PlaceholderStored ==
    [][/\ (/\ last'.op = "save_conversation"
           /\ \E i \in 1..Len(last'.arg.messages) : ~Dumpable(last'.arg.messages[i].metadata))
          => /\ last'.ret = "true"
             /\ \A data \in LoadedAfter(PayloadConversationId, PayloadUserId) :
                   /\ data # None
                   /\ Len(data.messages) = Len(last'.arg.messages)
                   /\ \A i \in 1..Len(last'.arg.messages) :
                         StoredFor(data, i, last'.arg.messages[i])
       /\ (/\ last'.op = "append_message"
           /\ ~Dumpable(last'.arg.metadata)
           /\ \E before \in Loaded(PayloadConversationId, PayloadUserId) : before # None)
          => /\ last'.ret = "true"
             /\ \A data \in LoadedAfter(PayloadConversationId, PayloadUserId) :
                   /\ data # None
                   /\ StoredFor(data, Len(data.messages), last'.arg)]_vars

\* ----------------------------------------------------------------------- C33
\* The attachments of a stored message record with a recognised type tag, as
\* Graph or Media objects in their stored order.
StatedAttachments(msg_data) ==
    SeqMap(LAMBDA att : Attachment("object", att.type),
           SelectSeq(StoredAttachments(msg_data),
                     LAMBDA att : att.type \in GraphTypeMembers \cup MediaTypeMembers))

\* C33: ConversationService.load_conversation never fails because of a stored
\* attachment record: an attachment without a recognised type tag is dropped,
\* and the attachments with a recognised tag are rebuilt as the matching Media
\* or Graph variant in their stored order.
C33_AttachmentsRebuilt ==
    [][last'.op = "service_load_conversation"
       => /\ last'.ret \in {"none", "found"}
          /\ last'.ret = "found"
                => \E data \in Loaded(last'.conversation_id, last'.user_id) :
                      /\ data # None
                      /\ Len(last'.result.messages) = Len(data.messages)
                      /\ \A i \in 1..Len(data.messages) :
                            last'.result.messages[i].attachments
                               = StatedAttachments(data.messages[i])]_vars

\* ----------------------------------------------------------------------- C34
\* C34: the agent's history never exceeds the maximum length: after every
\* completed process call, as after every pruning, it has at most
\* max(max_history_length, number of system messages in it) messages, for
\* any sequence of process and update_chat_history calls.
C34_HistoryBound ==
    (\/ call.op = "_prune_chat_history"
     \/ call.op = "process" /\ ~call.result.raised)
       => Len(chat_history) <= Max(max_history_length, CountSystem(chat_history))

\* ----------------------------------------------------------------------- C35
\* C35: whenever the service invokes agent.process for a conversation, the
\* agent's history consists only of messages persisted for that conversation
\* at that moment, the new user message among them: it holds no message of
\* another conversation or user served by the same agent instance and none
\* that a reset_conversation removed.
C35_HistoryOfConversation ==
    call.op = "process"
       => \E stored \in call.arg.stored :
             \A i \in 1..Len(call.before) :
                \E j \in 1..Len(stored) :
                   /\ stored[j].content = call.before[i].content
                   /\ stored[j].role = call.before[i].role

\* ----------------------------------------------------------------------- C36
\* C36: in send_message the message list handed to update_chat_history is the
\* list that was persisted before the call, so that the agent's history holds
\* the new user message exactly once when the backend is invoked, on every
\* persistence backend.
C36_UserMessageOnce ==
    call.op = "process"
       => /\ call.arg.handed \in call.arg.stored_before
          /\ Cardinality({i \in 1..Len(call.before) :
                             /\ call.before[i].role = "user"
                             /\ call.before[i].content = call.arg.message}) = 1

\* ----------------------------------------------------------------------- C37
\* The message records stored for a conversation id.
MessageRecords(conversation_id) ==
    {messages_container[k] : k \in {x \in DOMAIN messages_container : x[1] = conversation_id}}

\* C37: in the CosmosDB backend, after any sequence of completed
\* save_conversation, append_message and reset_conversation calls, the
\* metadata record's message_count equals the number of message records
\* stored for the conversation, and those records carry the sequence values
\* 0 to message_count - 1, none of them twice.
C37_CountMatchesRecords ==
    \A key \in DOMAIN conversation_container :
       LET message_count == conversation_container[key].message_count
           records == MessageRecords(key[2])
       IN  /\ Cardinality(records) = message_count
           /\ {r.sequence : r \in records} = 0..(message_count - 1)

\* ----------------------------------------------------------------------- C38
\* C38: a failed write leaves the stored conversation intact: when
\* save_conversation, append_message or reset_conversation returns false for
\* an existing conversation, a following load_conversation returns the
\* conversation it returned before the failed call, in every backend.
C38_FailedWriteKeeps ==
    [][(/\ last'.op \in {"save_conversation", "append_message", "reset_conversation"}
        /\ last'.ret = "false"
        /\ \E data \in Loaded(last'.conversation_id, last'.user_id) : data # None)
       => LoadedAfter(last'.conversation_id, last'.user_id)
             = Loaded(last'.conversation_id, last'.user_id)]_vars

\* ----------------------------------------------------------------------- C39
\* What append_message, reset_conversation and send_message have to leave
\* alone in a stored conversation.
Frame(data) ==
    [conversation_id |-> data.conversation_id, user_id |-> data.user_id,
     agent_id |-> data.agent_id, title |-> data.title, created_at |-> data.created_at,
     metadata |-> data.metadata]

\* C39: append_message, reset_conversation and send_message leave a stored
\* conversation's conversation_id, user_id, agent_id, title, created_at and
\* metadata unchanged; they change only its messages and last_updated_at, in
\* every backend.
C39_FrameKept ==
    [][last'.op \in {"append_message", "reset_conversation", "send_message"}
       => \A conversation_id \in ConvIds, user_id \in UserIds :
             \A before \in Loaded(conversation_id, user_id) \ {None} :
                \A after \in LoadedAfter(conversation_id, user_id) :
                   after # None /\ Frame(after) = Frame(before)]_vars

====
